---- MODULE Spec2Model ----
(***************************************************************************)
(* Filesystem access layer of the image browser: path normalisation, the   *)
(* filesystem service (listDirectory, createFolder, deleteItem, renameItem,*)
(* moveItem, saveFile, getFileContent) and the server actions in front of  *)
(* it, over a model of the native filesystem calls they issue.             *)
(*                                                                         *)
(* A string is a sequence of one-character strings: "a/.." is              *)
(* <<"a", "/", ".", ".">>.                                                 *)
(***************************************************************************)
EXTENDS Integers, Sequences, FiniteSets, TLC

VARIABLES fs, pre, last, probe, procs, stream

vars == <<fs, pre, last, probe, procs, stream>>

(***************************************************************************)
(* Bounds                                                                  *)
(***************************************************************************)
\* most segments of a path argument of an operation
MaxPathSegs == 2
\* most segments of the directory argument of saveFile and of moveItem
MaxDirSegs == 1
\* most segments of a name argument (folder name, new name, file name)
MaxNameSegs == 1
\* most entries below the root a run lets the filesystem hold
MaxEntries == 3
\* longest input of the normalizePath probe
MaxProbeLen == 6
\* most requests in flight at once
MaxProcs == 2
\* clock ticks from the start of a stream write to its timeout
TicksPerTimeout == 3
MaxFiles == 2

\* the path segments arguments are written with: empty (a leading, doubled or
\* trailing slash), ".", ".." and two plain names
Segments == {<<>>, <<".">>, <<".", ".">>, <<"a">>, <<"b">>}
\* names that are not one such segment: two dots inside a name, a slash
\* inside a name, a name that climbs
OddNames == {<<"a", ".", ".">>, <<"a", "/", "b">>, <<".", ".", "/", "a">>}
\* characters of the normalizePath probe ("%2e" is an URL-encoded dot)
ProbeChars == {"a", ".", "/", "%", "2", "e"}

StringsUpTo(chars, n) == UNION {[1..k -> chars] : k \in 0..n}

(***************************************************************************)
(* String primitives of the runtime                                        *)
(***************************************************************************)
\* String.prototype.includes
Includes(s, sub) ==
  \E i \in 1..(Len(s) - Len(sub) + 1) : SubSeq(s, i, i + Len(sub) - 1) = sub

\* s.replace(/^\/+/, '')
RECURSIVE StripLeadingSlashes(_)
StripLeadingSlashes(s) ==
  IF s /= <<>> /\ Head(s) = "/" THEN StripLeadingSlashes(Tail(s)) ELSE s

\* s.replace(/^\.\//, '')
StripDotSlash(s) ==
  IF Len(s) >= 2 /\ s[1] = "." /\ s[2] = "/" THEN SubSeq(s, 3, Len(s)) ELSE s

\* s.split('/')
RECURSIVE Split(_)
Split(s) ==
  IF \A i \in 1..Len(s) : s[i] /= "/" THEN <<s>>
  ELSE LET i == CHOOSE j \in 1..Len(s) :
                  s[j] = "/" /\ \A k \in 1..(j - 1) : s[k] /= "/"
       IN <<SubSeq(s, 1, i - 1)>> \o Split(SubSeq(s, i + 1, Len(s)))

\* segs.join('/')
RECURSIVE JoinSegs(_)
JoinSegs(segs) ==
  IF segs = <<>> THEN <<>>
  ELSE IF Len(segs) = 1 THEN segs[1]
  ELSE segs[1] \o <<"/">> \o JoinSegs(Tail(segs))

(***************************************************************************)
(* The POSIX path module (path.normalize, path.join, path.dirname,         *)
(* path.basename) as the service calls it                                  *)
(***************************************************************************)
DotDot == <<".", ".">>

\* normalizeString: drops empty and "." segments, resolves ".." against the
\* segment before it, keeps a ".." that has nothing to resolve against only
\* when allowAboveRoot
RECURSIVE NormSegs(_, _, _)
NormSegs(segs, acc, allowAboveRoot) ==
  IF segs = <<>> THEN acc
  ELSE LET s == Head(segs)
           rest == Tail(segs)
       IN IF s = <<>> \/ s = <<".">> THEN NormSegs(rest, acc, allowAboveRoot)
          ELSE IF s = DotDot
               THEN IF acc /= <<>> /\ acc[Len(acc)] /= DotDot
                    THEN NormSegs(rest, SubSeq(acc, 1, Len(acc) - 1), allowAboveRoot)
                    ELSE IF allowAboveRoot
                         THEN NormSegs(rest, Append(acc, s), allowAboveRoot)
                         ELSE NormSegs(rest, acc, allowAboveRoot)
               ELSE NormSegs(rest, Append(acc, s), allowAboveRoot)

normalizeString(p, allowAboveRoot) == JoinSegs(NormSegs(Split(p), <<>>, allowAboveRoot))

path_normalize(p) ==
  IF p = <<>> THEN <<".">>
  ELSE LET isAbsolute == p[1] = "/"
           trailingSeparator == p[Len(p)] = "/"
           n == normalizeString(p, ~isAbsolute)
       IN IF n = <<>>
          THEN IF isAbsolute THEN <<"/">>
               ELSE IF trailingSeparator THEN <<".", "/">> ELSE <<".">>
          ELSE LET t == IF trailingSeparator THEN Append(n, "/") ELSE n
               IN IF isAbsolute THEN <<"/">> \o t ELSE t

\* path.join(a, b): empty arguments are skipped
path_join(a, b) ==
  LET joined == IF a = <<>> THEN b
                ELSE IF b = <<>> THEN a
                ELSE a \o <<"/">> \o b
  IN IF joined = <<>> THEN <<".">> ELSE path_normalize(joined)

\* the string without its trailing slashes
RECURSIVE StripTrailingSlashes(_)
StripTrailingSlashes(s) ==
  IF s /= <<>> /\ s[Len(s)] = "/"
  THEN StripTrailingSlashes(SubSeq(s, 1, Len(s) - 1)) ELSE s

\* path.dirname
path_dirname(p) ==
  IF p = <<>> THEN <<".">>
  ELSE LET hasRoot == p[1] = "/"
           core == StripTrailingSlashes(p)
           cuts == {i \in 2..Len(core) : core[i] = "/"}
       IN IF cuts = {} THEN (IF hasRoot THEN <<"/">> ELSE <<".">>)
          ELSE LET end == CHOOSE i \in cuts : \A j \in cuts : j <= i
               IN IF hasRoot /\ end = 2 THEN <<"/", "/">>
                  ELSE SubSeq(core, 1, end - 1)

\* path.basename
path_basename(p) ==
  LET core == StripTrailingSlashes(p)
      segs == Split(core)
  IN segs[Len(segs)]

(***************************************************************************)
(* normalizePath and getAbsolutePath                                       *)
(***************************************************************************)
DATA_PATH == <<".", "/", "d", "a", "t", "a">>

Returned(v) == [threw |-> FALSE, val |-> v]
Thrown == [threw |-> TRUE, val |-> <<>>]

\* a faulty normalizePath: the check for ".." left out
normalizePath_unchecked(inputPath) ==
  IF inputPath = <<>> \/ inputPath = <<"/">> THEN Returned(<<>>)
  ELSE Returned(StripDotSlash(path_normalize(StripLeadingSlashes(inputPath))))

\* a faulty normalizePath: one leading slash stripped, not all of them
normalizePath_oneSlash(inputPath) ==
  IF inputPath = <<>> \/ inputPath = <<"/">> THEN Returned(<<>>)
  ELSE LET normalizedPath ==
             path_normalize(IF Head(inputPath) = "/" THEN Tail(inputPath) ELSE inputPath)
       IN IF Includes(normalizedPath, DotDot) THEN Thrown
          ELSE Returned(StripDotSlash(normalizedPath))

normalizePath(inputPath) ==
  IF inputPath = <<>> \/ inputPath = <<"/">> THEN Returned(<<>>)
  ELSE LET normalizedPath == path_normalize(StripLeadingSlashes(inputPath))
       IN IF Includes(normalizedPath, DotDot) THEN Thrown
          ELSE Returned(StripDotSlash(normalizedPath))

getAbsolutePath(relativePath) ==
  LET n == normalizePath(relativePath)
  IN IF n.threw THEN Thrown ELSE Returned(path_join(DATA_PATH, n.val))

(***************************************************************************)
(* The native filesystem under the process's working directory.  fs maps   *)
(* the normalised path of every existing entry (no trailing slash) to its  *)
(* node; the working directory itself always exists and lies outside the   *)
(* root.  Each call returns its error code ("" for none) and the new fs.   *)
(***************************************************************************)
Cwd == <<".">>
Root == path_normalize(DATA_PATH)

NoBytes == [length |-> 0, data |-> 0]
DirNode == [isDir |-> TRUE, bytes |-> NoBytes]
FileNode(b) == [isDir |-> FALSE, bytes |-> b]

Key(p) == StripTrailingSlashes(path_normalize(p))
TrailingSlash(p) == p /= <<>> /\ p[Len(p)] = "/"

\* k is root_ or lies below it
Under(k, root_) ==
  \/ k = root_
  \/ Len(k) > Len(root_) /\ SubSeq(k, 1, Len(root_) + 1) = Append(root_, "/")

InRoot(p) == Under(Key(p), Root)

Ancestors(k) == {SubSeq(k, 1, i - 1) : i \in {j \in 2..Len(k) : k[j] = "/"}}

ExistsAt(f, k) == k = Cwd \/ k \in DOMAIN f
IsDirAt(f, k) == k = Cwd \/ (k \in DOMAIN f /\ f[k].isDir)
IsFileAt(f, k) == k \in DOMAIN f /\ ~f[k].isDir
FileInWay(f, k) == \E a \in Ancestors(k) : IsFileAt(f, a)

\* path lookup as every native call does it first
LookupErr(f, p) ==
  LET k == Key(p)
  IN IF FileInWay(f, k) THEN "ENOTDIR"
     ELSE IF ~ExistsAt(f, k) THEN "ENOENT"
     ELSE IF TrailingSlash(p) /\ ~IsDirAt(f, k) THEN "ENOTDIR"
     ELSE ""

Subtree(f, k) == {x \in DOMAIN f : Under(x, k)}
Children(f, k) == {x \in DOMAIN f : x /= k /\ path_dirname(x) = k}
Without(f, gone) == [x \in DOMAIN f \ gone |-> f[x]]

fsPromises_stat(f, p) ==
  LET e == LookupErr(f, p)
  IN [err |-> e, isDir |-> e = "" /\ IsDirAt(f, Key(p)), fs |-> f]

\* mkdir(p, { recursive: true })
fsPromises_mkdir(f, p) ==
  LET k == Key(p)
      missing == ((Ancestors(k) \cup {k}) \ DOMAIN f) \ {Cwd}
  IN IF FileInWay(f, k) THEN [err |-> "ENOTDIR", fs |-> f]
     ELSE IF IsFileAt(f, k) THEN [err |-> "EEXIST", fs |-> f]
     ELSE [err |-> "",
           fs |-> [x \in DOMAIN f \cup missing |->
                     IF x \in DOMAIN f THEN f[x] ELSE DirNode]]

\* the order in which readdir returns names
CharOrder == <<"%", ".", "/", "2", "a", "b", "d", "e", "t">>
Rank(c) == CHOOSE i \in 1..Len(CharOrder) : CharOrder[i] = c
LessStr(a, b) ==
  \E i \in 1..(Len(a) + 1) :
     /\ i <= Len(b)
     /\ SubSeq(a, 1, i - 1) = SubSeq(b, 1, i - 1)
     /\ (i > Len(a) \/ Rank(a[i]) < Rank(b[i]))

RECURSIVE SortNames(_)
SortNames(S) ==
  IF S = {} THEN <<>>
  ELSE LET m == CHOOSE x \in S : \A y \in S \ {x} : LessStr(x, y)
       IN <<m>> \o SortNames(S \ {m})

fsPromises_readdir(f, p) ==
  LET e == LookupErr(f, p)
      k == Key(p)
  IN IF e /= "" THEN [err |-> e, files |-> <<>>]
     ELSE IF ~IsDirAt(f, k) THEN [err |-> "ENOTDIR", files |-> <<>>]
     ELSE [err |-> "", files |-> SortNames({path_basename(x) : x \in Children(f, k)})]

fsPromises_rename(f, src, dst) ==
  LET ks == Key(src)
      kd == Key(dst)
      e == LookupErr(f, src)
      moved == Subtree(f, ks)
      Rebase(x) == kd \o SubSeq(x, Len(ks) + 1, Len(x))
      Origin(y) == CHOOSE x \in moved : Rebase(x) = y
      kept == (DOMAIN f \ moved) \ Subtree(f, kd)
  IN IF e /= "" THEN [err |-> e, fs |-> f]
     ELSE IF ks = Cwd \/ kd = Cwd THEN [err |-> "EBUSY", fs |-> f]
     ELSE IF FileInWay(f, kd) THEN [err |-> "ENOTDIR", fs |-> f]
     ELSE IF ~ExistsAt(f, path_dirname(kd)) THEN [err |-> "ENOENT", fs |-> f]
     ELSE IF ks = kd THEN [err |-> "", fs |-> f]
     ELSE IF Under(kd, ks) THEN [err |-> "EINVAL", fs |-> f]
     ELSE IF IsFileAt(f, ks) /\ (TrailingSlash(dst) \/ IsDirAt(f, kd))
          THEN [err |-> IF IsDirAt(f, kd) THEN "EISDIR" ELSE "ENOTDIR", fs |-> f]
     ELSE IF IsDirAt(f, ks) /\ IsFileAt(f, kd) THEN [err |-> "ENOTDIR", fs |-> f]
     ELSE IF IsDirAt(f, ks) /\ IsDirAt(f, kd) /\ Children(f, kd) /= {}
          THEN [err |-> "ENOTEMPTY", fs |-> f]
     ELSE [err |-> "",
           fs |-> [y \in kept \cup {Rebase(x) : x \in moved} |->
                     IF y \in kept THEN f[y] ELSE f[Origin(y)]]]

fsPromises_unlink(f, p) ==
  LET e == LookupErr(f, p)
      k == Key(p)
  IN IF e /= "" THEN [err |-> e, fs |-> f]
     ELSE IF IsDirAt(f, k) THEN [err |-> "EISDIR", fs |-> f]
     ELSE [err |-> "", fs |-> Without(f, {k})]

\* a faulty rm: the directory's node goes, what lies below it stays
fsPromises_rm_shallow(f, p) ==
  IF LookupErr(f, p) = "" /\ Key(p) /= Cwd
  THEN [err |-> "", fs |-> Without(f, {Key(p)})]
  ELSE [err |-> LookupErr(f, p), fs |-> f]

\* rm(p, { recursive: true, force: true })
fsPromises_rm(f, p) ==
  LET e == LookupErr(f, p)
      k == Key(p)
  IN IF e = "ENOENT" THEN [err |-> "", fs |-> f]
     ELSE IF e /= "" THEN [err |-> e, fs |-> f]
     ELSE IF k = Cwd THEN [err |-> "EINVAL", fs |-> f]
     ELSE [err |-> "", fs |-> Without(f, Subtree(f, k))]

\* the error of opening p for writing (flag 'w')
OpenErr(f, p) ==
  LET k == Key(p)
  IN IF FileInWay(f, k) THEN "ENOTDIR"
     ELSE IF ~ExistsAt(f, path_dirname(k)) THEN "ENOENT"
     ELSE IF TrailingSlash(p) \/ IsDirAt(f, k) THEN "EISDIR"
     ELSE ""

Put(f, k, node) == [x \in DOMAIN f \cup {k} |-> IF x = k THEN node ELSE f[x]]

fsPromises_writeFile(f, p, b) ==
  LET e == OpenErr(f, p)
  IN IF e /= "" THEN [err |-> e, fs |-> f]
     ELSE [err |-> "", fs |-> Put(f, Key(p), FileNode(b))]

fsPromises_readFile(f, p) ==
  LET e == LookupErr(f, p)
      k == Key(p)
  IN IF e /= "" THEN [err |-> e, bytes |-> NoBytes]
     ELSE IF IsDirAt(f, k) THEN [err |-> "EISDIR", bytes |-> NoBytes]
     ELSE [err |-> "", bytes |-> f[k].bytes]

(***************************************************************************)
(* Outcomes of an operation: what it returned or threw, the filesystem it  *)
(* left and the native calls it issued, in order                           *)
(***************************************************************************)
NoListing == [path |-> <<>>, items |-> <<>>, parentNull |-> TRUE, parent |-> <<>>]

Base(f, calls) ==
  [threw |-> FALSE, success |-> FALSE, message |-> "", hasData |-> FALSE,
   data |-> <<>>, isListing |-> FALSE, listing |-> NoListing, bytes |-> NoBytes,
   streamed |-> FALSE, fs |-> f, calls |-> calls]

Failure(msg, f, calls) == [Base(f, calls) EXCEPT !.message = msg]
Success(msg, f, calls) == [Base(f, calls) EXCEPT !.success = TRUE, !.message = msg]
SuccessData(msg, d, f, calls) ==
  [Base(f, calls) EXCEPT !.success = TRUE, !.message = msg, !.hasData = TRUE, !.data = d]
Throw(msg, f, calls) == [Base(f, calls) EXCEPT !.threw = TRUE, !.message = msg]
Listing(l, f, calls) ==
  [Base(f, calls) EXCEPT !.success = TRUE, !.isListing = TRUE, !.listing = l]
Content(b, f, calls) == [Base(f, calls) EXCEPT !.success = TRUE, !.bytes = b]

Call(fn, p) == [fn |-> fn, path |-> p]

\* an OperationResult as a caller holds it
OperationResult(success, message, data) ==
  [success |-> success, message |-> message, data |-> data]

\* a faulty catch: the error goes on to the caller
Catch_nothing(out, msg) == out

\* catch (error) { return { success: false, message } }
Catch(out, msg) == IF out.threw THEN Failure(msg, out.fs, out.calls) ELSE out
\* catch (error) { throw new Error(message) }
Rethrow(out, msg) == IF out.threw THEN Throw(msg, out.fs, out.calls) ELSE out

(***************************************************************************)
(* The filesystem service: mutations.  Each function is written as the     *)
(* chain of its steps, last step first: a step takes what the steps before *)
(* it computed (the result of the call just made comes first, the native   *)
(* calls issued so far last) and carries on to the function's end.         *)
(***************************************************************************)
InvalidPath(f) == Throw("Invalid path", f, <<>>)

\* createFolder, from the result of mkdir
fs_createFolder_made(mk, f, calls) ==
  IF mk.err /= "" THEN Throw(mk.err, f, calls)
  ELSE Success("Folder created successfully", mk.fs, calls)

\* createFolder, from the result of the existence probe
fs_createFolder_probed(st, f, absolutePath, calls) ==
  IF st.err = "" THEN Failure("A folder with this name already exists", f, calls)
  ELSE IF st.err /= "ENOENT" THEN Throw(st.err, f, calls)
  ELSE fs_createFolder_made(fsPromises_mkdir(f, absolutePath), f,
                            Append(calls, Call("mkdir", absolutePath)))

fs_createFolder_resolved(a, f) ==
  IF a.threw THEN InvalidPath(f)
  ELSE fs_createFolder_probed(fsPromises_stat(f, a.val), f, a.val,
                              <<Call("stat", a.val)>>)

fs_createFolder_normalized(n, f, folderName) ==
  IF n.threw THEN InvalidPath(f)
  ELSE fs_createFolder_resolved(getAbsolutePath(path_join(n.val, folderName)), f)

fs_createFolder_try(f, dirPath, folderName) ==
  fs_createFolder_normalized(normalizePath(dirPath), f, folderName)

fs_createFolder(f, dirPath, folderName) ==
  Catch(fs_createFolder_try(f, dirPath, folderName), "Failed to create folder")

\* deleteItem, from the result of rm or unlink; the inner catch turns ENOENT
\* from the probe or from the removal into "not found"
fs_deleteItem_removed(del, f, calls) ==
  IF del.err = "ENOENT" THEN Failure("Item not found", f, calls)
  ELSE IF del.err /= "" THEN Throw(del.err, f, calls)
  ELSE Success("Item deleted successfully", del.fs, calls)

fs_deleteItem_probed(st, f, absolutePath, calls) ==
  IF st.err = "ENOENT" THEN Failure("Item not found", f, calls)
  ELSE IF st.err /= "" THEN Throw(st.err, f, calls)
  ELSE IF st.isDir
       THEN fs_deleteItem_removed(fsPromises_rm(f, absolutePath), f,
                                  Append(calls, Call("rm", absolutePath)))
  ELSE fs_deleteItem_removed(fsPromises_unlink(f, absolutePath), f,
                             Append(calls, Call("unlink", absolutePath)))

fs_deleteItem_resolved(a, f) ==
  IF a.threw THEN InvalidPath(f)
  ELSE fs_deleteItem_probed(fsPromises_stat(f, a.val), f, a.val, <<Call("stat", a.val)>>)

fs_deleteItem_normalized(n, f) ==
  IF n.threw THEN InvalidPath(f) ELSE fs_deleteItem_resolved(getAbsolutePath(n.val), f)

fs_deleteItem_try(f, itemPath) == fs_deleteItem_normalized(normalizePath(itemPath), f)

fs_deleteItem(f, itemPath) ==
  Catch(fs_deleteItem_try(f, itemPath), "Failed to delete item")

\* renameItem and moveItem end alike: resolve the new path, probe it, rename
Renamed(rn, f, newPath, doneMsg, calls) ==
  IF rn.err /= "" THEN Throw(rn.err, f, calls)
  ELSE SuccessData(doneMsg, newPath, rn.fs, calls)

\* a faulty probe: an entry at the new path does not stop the rename
RenameProbed_over(st, f, absolutePath, newAbsolutePath, newPath, existsMsg, doneMsg, calls) ==
  IF st.err /= "" /\ st.err /= "ENOENT" THEN Throw(st.err, f, calls)
  ELSE Renamed(fsPromises_rename(f, absolutePath, newAbsolutePath), f, newPath, doneMsg,
               calls \o <<Call("rename", absolutePath), Call("rename", newAbsolutePath)>>)

RenameProbed(st, f, absolutePath, newAbsolutePath, newPath, existsMsg, doneMsg, calls) ==
  IF st.err = "" THEN Failure(existsMsg, f, calls)
  ELSE IF st.err /= "ENOENT" THEN Throw(st.err, f, calls)
  ELSE Renamed(fsPromises_rename(f, absolutePath, newAbsolutePath), f, newPath, doneMsg,
               calls \o <<Call("rename", absolutePath), Call("rename", newAbsolutePath)>>)

RenameTo(an, f, absolutePath, newPath, existsMsg, doneMsg) ==
  IF an.threw THEN InvalidPath(f)
  ELSE RenameProbed(fsPromises_stat(f, an.val), f, absolutePath, an.val, newPath,
                    existsMsg, doneMsg, <<Call("stat", an.val)>>)

RenameFrom(a, f, newPath, existsMsg, doneMsg) ==
  IF a.threw THEN InvalidPath(f)
  ELSE RenameTo(getAbsolutePath(newPath), f, a.val, newPath, existsMsg, doneMsg)

\* a faulty renameItem: the new name taken as the new path, the parent dropped
fs_renameItem_flat(n, f, newName) ==
  IF n.threw THEN InvalidPath(f)
  ELSE RenameFrom(getAbsolutePath(n.val), f, newName,
                  "An item with this name already exists", "Item renamed successfully")

fs_renameItem_normalized(n, f, newName) ==
  IF n.threw THEN InvalidPath(f)
  ELSE RenameFrom(getAbsolutePath(n.val), f, path_join(path_dirname(n.val), newName),
                  "An item with this name already exists", "Item renamed successfully")

fs_renameItem_try(f, itemPath, newName) ==
  fs_renameItem_normalized(normalizePath(itemPath), f, newName)

fs_renameItem(f, itemPath, newName) ==
  Catch(fs_renameItem_try(f, itemPath, newName), "Failed to rename item")

\* a faulty moveItem: the target directory dropped from the new path
fs_moveItem_flat(ni, nt, f) ==
  IF ni.threw \/ nt.threw THEN InvalidPath(f)
  ELSE RenameFrom(getAbsolutePath(ni.val), f, path_basename(ni.val),
                  "An item with this name already exists in the target folder",
                  "Item moved successfully")

fs_moveItem_normalized(ni, nt, f) ==
  IF ni.threw \/ nt.threw THEN InvalidPath(f)
  ELSE RenameFrom(getAbsolutePath(ni.val), f, path_join(nt.val, path_basename(ni.val)),
                  "An item with this name already exists in the target folder",
                  "Item moved successfully")

fs_moveItem_try(f, itemPath, targetPath) ==
  fs_moveItem_normalized(normalizePath(itemPath), normalizePath(targetPath), f)

fs_moveItem(f, itemPath, targetPath) ==
  Catch(fs_moveItem_try(f, itemPath, targetPath), "Failed to move item")

\* 5MB: above it saveFile writes through a stream
StreamThreshold == 5 * 1024 * 1024

\* how a stream write can go: the event that settles the promise first, and
\* whether the file had been opened (created, with a prefix of the bytes)
StreamRuns ==
  {[event |-> "finish", opened |-> TRUE]}
    \cup [event : {"error", "timeout"}, opened : BOOLEAN]
FinishRun == [event |-> "finish", opened |-> TRUE]

Prefix(b) == [b EXCEPT !.length = 0]

Streamed(out) == [out EXCEPT !.streamed = TRUE]

\* what an unfinished stream leaves behind
Partial(f, absolutePath, fileBuffer, run) ==
  IF run.opened THEN Put(f, Key(absolutePath), FileNode(Prefix(fileBuffer))) ELSE f

saveFileThroughStream(f, absolutePath, fileBuffer, relativePath, run, calls) ==
  IF OpenErr(f, absolutePath) /= "" THEN Failure("Error writing file", f, calls)
  ELSE IF run.event = "finish"
       THEN Streamed(SuccessData("File saved successfully", relativePath,
                                 Put(f, Key(absolutePath), FileNode(fileBuffer)), calls))
  ELSE IF run.event = "error"
       THEN Streamed(Failure("Error writing file",
                             Partial(f, absolutePath, fileBuffer, run), calls))
  ELSE Streamed(Failure("File upload timed out",
                        Partial(f, absolutePath, fileBuffer, run), calls))

\* saveFile, from the result of writeFile
fs_saveFile_written(wr, f, filePath, calls) ==
  IF wr.err /= "" THEN Throw(wr.err, f, calls)
  ELSE SuccessData("File saved successfully", filePath, wr.fs, calls)

\* a faulty probe: an entry at the target does not stop the write
fs_saveFile_over(st, f, absolutePath, filePath, fileBuffer, run, calls) ==
  IF st.err /= "" /\ st.err /= "ENOENT" THEN Throw(st.err, f, calls)
  ELSE fs_saveFile_written(fsPromises_writeFile(f, absolutePath, fileBuffer), f, filePath,
                           Append(calls, Call("writeFile", absolutePath)))

\* saveFile, from the result of the existence probe
fs_saveFile_probed(st, f, absolutePath, filePath, fileBuffer, run, calls) ==
  IF st.err = "" THEN Failure("A file with this name already exists", f, calls)
  ELSE IF st.err /= "ENOENT" THEN Throw(st.err, f, calls)
  ELSE IF fileBuffer.length > StreamThreshold
       THEN saveFileThroughStream(f, absolutePath, fileBuffer, filePath, run,
                                  Append(calls, Call("createWriteStream", absolutePath)))
  ELSE fs_saveFile_written(fsPromises_writeFile(f, absolutePath, fileBuffer), f, filePath,
                           Append(calls, Call("writeFile", absolutePath)))

\* saveFile, from the result of mkdir on the target's directory
fs_saveFile_ensured(mk, f, absolutePath, filePath, fileBuffer, run, calls) ==
  IF mk.err /= "" THEN Throw(mk.err, f, calls)
  ELSE fs_saveFile_probed(fsPromises_stat(mk.fs, absolutePath), mk.fs, absolutePath,
                          filePath, fileBuffer, run,
                          Append(calls, Call("stat", absolutePath)))

fs_saveFile_resolved(a, f, filePath, fileBuffer, run) ==
  IF a.threw THEN InvalidPath(f)
  ELSE fs_saveFile_ensured(fsPromises_mkdir(f, path_dirname(a.val)), f, a.val, filePath,
                           fileBuffer, run, <<Call("mkdir", path_dirname(a.val))>>)

fs_saveFile_joined(filePath, f, fileBuffer, run) ==
  fs_saveFile_resolved(getAbsolutePath(filePath), f, filePath, fileBuffer, run)

fs_saveFile_normalized(n, f, fileName, fileBuffer, run) ==
  IF n.threw THEN InvalidPath(f)
  ELSE fs_saveFile_joined(path_join(n.val, fileName), f, fileBuffer, run)

fs_saveFile_try(f, dirPath, fileName, fileBuffer, run) ==
  fs_saveFile_normalized(normalizePath(dirPath), f, fileName, fileBuffer, run)

fs_saveFile(f, dirPath, fileName, fileBuffer, run) ==
  Catch(fs_saveFile_try(f, dirPath, fileName, fileBuffer, run), "Failed to save file")

(***************************************************************************)
(* The filesystem service: listings and reads                              *)
(***************************************************************************)
ensureDataDirectory(f) ==
  [mk |-> fsPromises_mkdir(f, DATA_PATH), calls |-> <<Call("mkdir", DATA_PATH)>>]

MakeListing(normalizedPath, items) ==
  [path |-> normalizedPath, items |-> items,
   parentNull |-> normalizedPath = <<>>,
   parent |-> IF normalizedPath = <<>> THEN <<>> ELSE path_dirname(normalizedPath)]

FileItem(file, filePath, f, k) ==
  [name |-> file, path |-> filePath, isDirectory |-> IsDirAt(f, k),
   size |-> IF IsDirAt(f, k) THEN 0 ELSE f[k].bytes.length]

NoItem(file, filePath) ==
  [name |-> file, path |-> filePath, isDirectory |-> FALSE, size |-> 0]

\* a faulty callback: a failed stat is thrown on, not answered with null
ChildStat_throws(st, af, f, file, filePath) ==
  [threw |-> st.err /= "", null |-> st.err /= "", call |-> Call("stat", af.val),
   item |-> IF st.err /= "" THEN NoItem(file, filePath)
            ELSE FileItem(file, filePath, f, Key(af.val))]

\* one callback of the files.map of listDirectory: threw when getAbsolutePath
\* rejects the child's path, null when its stat fails
ChildStat(st, af, f, file, filePath) ==
  [threw |-> FALSE, null |-> st.err /= "", call |-> Call("stat", af.val),
   item |-> IF st.err /= "" THEN NoItem(file, filePath)
            ELSE FileItem(file, filePath, f, Key(af.val))]

ChildResolved(af, f, file, filePath) ==
  IF af.threw
  THEN [threw |-> TRUE, null |-> TRUE, call |-> Call("stat", <<>>),
        item |-> NoItem(file, filePath)]
  ELSE ChildStat(fsPromises_stat(f, af.val), af, f, file, filePath)

ChildJoined(filePath, f, file) ==
  ChildResolved(getAbsolutePath(filePath), f, file, filePath)

StatChild(f, normalizedPath, file) == ChildJoined(path_join(normalizedPath, file), f, file)

NotNull(c) == ~c.null
Called(c) == ~c.threw
CallsOf(children) == [i \in 1..Len(children) |-> children[i].call]
ItemsOf(children) == [i \in 1..Len(children) |-> children[i].item]

\* listDirectory, from the settled callbacks: every callback that got past
\* getAbsolutePath has issued its stat
fs_listDirectory_mapped(children, f, normalizedPath, calls) ==
  IF \E i \in 1..Len(children) : children[i].threw
  THEN Throw("Invalid path", f, calls \o CallsOf(SelectSeq(children, Called)))
  ELSE Listing(MakeListing(normalizedPath, ItemsOf(SelectSeq(children, NotNull))), f,
               calls \o CallsOf(children))

fs_listDirectory_read(rd, f, normalizedPath, calls) ==
  IF rd.err /= "" THEN Throw(rd.err, f, calls)
  ELSE fs_listDirectory_mapped(
         [i \in 1..Len(rd.files) |-> StatChild(f, normalizedPath, rd.files[i])],
         f, normalizedPath, calls)

fs_listDirectory_probed(st, f, normalizedPath, absolutePath, calls) ==
  IF st.err = "ENOENT" THEN Listing(MakeListing(normalizedPath, <<>>), f, calls)
  ELSE IF st.err /= "" THEN Throw(st.err, f, calls)
  ELSE IF ~st.isDir THEN Throw("Path is not a directory", f, calls)
  ELSE fs_listDirectory_read(fsPromises_readdir(f, absolutePath), f, normalizedPath,
                             Append(calls, Call("readdir", absolutePath)))

fs_listDirectory_resolved(a, f, normalizedPath, calls) ==
  IF a.threw THEN Throw("Invalid path", f, calls)
  ELSE fs_listDirectory_probed(fsPromises_stat(f, a.val), f, normalizedPath, a.val,
                               Append(calls, Call("stat", a.val)))

fs_listDirectory_normalized(n, f, calls) ==
  IF n.threw THEN Throw("Invalid path", f, calls)
  ELSE fs_listDirectory_resolved(getAbsolutePath(n.val), f, n.val, calls)

fs_listDirectory_ensured(e, f, dirPath) ==
  IF e.mk.err /= "" THEN Throw("Failed to create data directory", f, e.calls)
  ELSE fs_listDirectory_normalized(normalizePath(dirPath), e.mk.fs, e.calls)

fs_listDirectory_try(f, dirPath) ==
  fs_listDirectory_ensured(ensureDataDirectory(f), f, dirPath)

fs_listDirectory(f, dirPath) ==
  Rethrow(fs_listDirectory_try(f, dirPath), "Failed to list directory")

RECURSIVE fs_listDirectoryRecursively(_, _)
RECURSIVE RecurseFiles(_, _, _, _, _)

\* a faulty loop body: the entries of the subdirectory are left out
Recursed_shallow(sub, normalizedPath, files, items, calls) ==
  RecurseFiles(sub.fs, normalizedPath, Tail(files), items, calls \o sub.calls)

\* the loop body after the recursive call on a subdirectory: a throw of the
\* call is caught with the item already pushed
Recursed(sub, normalizedPath, files, items, calls) ==
  RecurseFiles(sub.fs, normalizedPath, Tail(files),
               IF sub.threw THEN items ELSE items \o sub.listing.items,
               calls \o sub.calls)

\* the loop body from the result of the file's stat
RecurseStat(st, f, normalizedPath, files, items, filePath, k, calls) ==
  IF st.err /= "" THEN RecurseFiles(f, normalizedPath, Tail(files), items, calls)
  ELSE IF ~st.isDir
       THEN RecurseFiles(f, normalizedPath, Tail(files),
                         Append(items, FileItem(Head(files), filePath, f, k)), calls)
  ELSE Recursed(fs_listDirectoryRecursively(f, filePath), normalizedPath, files,
                Append(items, FileItem(Head(files), filePath, f, k)), calls)

RecurseResolved(af, f, normalizedPath, files, items, filePath, calls) ==
  IF af.threw THEN Throw("Invalid path", f, calls)
  ELSE RecurseStat(fsPromises_stat(f, af.val), f, normalizedPath, files, items,
                   filePath, Key(af.val), Append(calls, Call("stat", af.val)))

RecurseJoined(filePath, f, normalizedPath, files, items, calls) ==
  RecurseResolved(getAbsolutePath(filePath), f, normalizedPath, files, items, filePath,
                  calls)

\* the for loop of listDirectoryRecursively over the files still to visit
RecurseFiles(f, normalizedPath, files, items, calls) ==
  IF files = <<>> THEN Listing(MakeListing(normalizedPath, items), f, calls)
  ELSE RecurseJoined(path_join(normalizedPath, Head(files)), f, normalizedPath, files,
                     items, calls)

fs_listDirectoryRecursively_read(rd, f, normalizedPath, calls) ==
  IF rd.err /= "" THEN Throw(rd.err, f, calls)
  ELSE RecurseFiles(f, normalizedPath, rd.files, <<>>, calls)

fs_listDirectoryRecursively_probed(st, f, normalizedPath, absolutePath, calls) ==
  IF st.err = "ENOENT" THEN Listing(MakeListing(normalizedPath, <<>>), f, calls)
  ELSE IF st.err /= "" THEN Throw(st.err, f, calls)
  ELSE IF ~st.isDir THEN Throw("Path is not a directory", f, calls)
  ELSE fs_listDirectoryRecursively_read(fsPromises_readdir(f, absolutePath), f,
                                        normalizedPath,
                                        Append(calls, Call("readdir", absolutePath)))

fs_listDirectoryRecursively_resolved(a, f, normalizedPath, calls) ==
  IF a.threw THEN Throw("Invalid path", f, calls)
  ELSE fs_listDirectoryRecursively_probed(fsPromises_stat(f, a.val), f, normalizedPath,
                                          a.val, Append(calls, Call("stat", a.val)))

fs_listDirectoryRecursively_normalized(n, f, calls) ==
  IF n.threw THEN Throw("Invalid path", f, calls)
  ELSE fs_listDirectoryRecursively_resolved(getAbsolutePath(n.val), f, n.val, calls)

fs_listDirectoryRecursively_ensured(e, f, dirPath) ==
  IF e.mk.err /= "" THEN Throw("Failed to create data directory", f, e.calls)
  ELSE fs_listDirectoryRecursively_normalized(normalizePath(dirPath), e.mk.fs, e.calls)

fs_listDirectoryRecursively(f, dirPath) ==
  Rethrow(fs_listDirectoryRecursively_ensured(ensureDataDirectory(f), f, dirPath),
          "Failed to list directory recursively")

\* getFileContent, from the result of readFile
fs_getFileContent_read(rd, f, calls) ==
  IF rd.err /= "" THEN Throw(rd.err, f, calls) ELSE Content(rd.bytes, f, calls)

fs_getFileContent_resolved(a, f) ==
  IF a.threw THEN InvalidPath(f)
  ELSE fs_getFileContent_read(fsPromises_readFile(f, a.val), f,
                              <<Call("readFile", a.val)>>)

fs_getFileContent_normalized(n, f) ==
  IF n.threw THEN InvalidPath(f) ELSE fs_getFileContent_resolved(getAbsolutePath(n.val), f)

fs_getFileContent(f, filePath) ==
  Rethrow(fs_getFileContent_normalized(normalizePath(filePath), f), "Failed to read file")

(***************************************************************************)
(* The server actions and the file route, in front of the service          *)
(***************************************************************************)
INVALID_NAME == "The name contains invalid characters"
OPERATION_FAILED == "The operation failed"

\* the characters of /[<>:"/\\|?*\x00-\x1F]/ this model writes names with
ReservedChars == {"<", ">", ":", "\"", "/", "\\", "|", "?", "*"}
ControlChars == {"\t", "\n", "\r"}

\* !name || /[<>:"/\\|?*\x00-\x1F]/.test(name)
InvalidName(name) ==
  name = <<>> \/ \E i \in 1..Len(name) : name[i] \in ReservedChars \cup ControlChars

\* dirPath.split('/').slice(0, -1).join('/')
SplitParent(dirPath) ==
  LET segs == Split(dirPath)
  IN JoinSegs(SubSeq(segs, 1, Len(segs) - 1))

\* the catch of getDirectoryContents answers with an empty listing
EmptyContents(dirPath, out) ==
  Listing([path |-> dirPath, items |-> <<>>, parentNull |-> dirPath = <<>>,
           parent |-> IF dirPath = <<>> THEN <<>> ELSE SplitParent(dirPath)],
          out.fs, out.calls)

getDirectoryContents_listed(out, dirPath) ==
  IF out.threw THEN EmptyContents(dirPath, out) ELSE out

getDirectoryContents(f, dirPath) ==
  getDirectoryContents_listed(fs_listDirectory(f, dirPath), dirPath)

\* a faulty createFolder action: the name goes unvalidated to the service
createFolder_unchecked(f, dirPath, folderName) ==
  Catch(fs_createFolder(f, dirPath, folderName), OPERATION_FAILED)

createFolder(f, dirPath, folderName) ==
  IF InvalidName(folderName) THEN Failure(INVALID_NAME, f, <<>>)
  ELSE Catch(fs_createFolder(f, dirPath, folderName), OPERATION_FAILED)

renameItem(f, itemPath, newName) ==
  IF InvalidName(newName) THEN Failure(INVALID_NAME, f, <<>>)
  ELSE Catch(fs_renameItem(f, itemPath, newName), OPERATION_FAILED)

deleteItem(f, itemPath) == Catch(fs_deleteItem(f, itemPath), OPERATION_FAILED)

moveItem(f, itemPath, targetPath) ==
  Catch(fs_moveItem(f, itemPath, targetPath), OPERATION_FAILED)

getFileContent(f, filePath) == Rethrow(fs_getFileContent(f, filePath), OPERATION_FAILED)

\* GET /api/file/[...path]: 200 with the bytes, or 404
NotFound(out) == IF out.threw THEN Failure("File not found", out.fs, out.calls) ELSE out

GET_normalized(n, f) ==
  IF n.threw THEN Failure("File not found", f, <<>>)
  ELSE NotFound(getFileContent(f, n.val))

GET(f, filePath) == GET_normalized(normalizePath(filePath), f)

(***************************************************************************)
(* The upload action.  A submitted file is a record of its name, its       *)
(* declared type, its size, whether its bytes can be read (arrayBuffer),   *)
(* and how the write stream would go if the save opens one.                *)
(***************************************************************************)
MAX_FILE_SIZE == 50 * 1024 * 1024

ALLOWED_FILE_TYPES ==
  {<<"i", "m", "a", "g", "e", "/", "j", "p", "e", "g">>,
   <<"i", "m", "a", "g", "e", "/", "j", "p", "g">>,
   <<"i", "m", "a", "g", "e", "/", "p", "n", "g">>,
   <<"i", "m", "a", "g", "e", "/", "g", "i", "f">>,
   <<"i", "m", "a", "g", "e", "/", "w", "e", "b", "p">>,
   <<"i", "m", "a", "g", "e", "/", "s", "v", "g", "+", "x", "m", "l">>,
   <<"i", "m", "a", "g", "e", "/", "s", "v", "g">>,
   <<"i", "m", "a", "g", "e", "/", "b", "m", "p">>,
   <<"i", "m", "a", "g", "e", "/", "t", "i", "f", "f">>,
   <<"i", "m", "a", "g", "e", "/", "h", "e", "i", "c">>,
   <<"i", "m", "a", "g", "e", "/", "h", "e", "i", "f">>,
   <<"a", "p", "p", "l", "i", "c", "a", "t", "i", "o", "n", "/", "o", "c", "t", "e", "t", "-", "s", "t", "r", "e", "a", "m">>,
   <<"i", "m", "a", "g", "e", "/", "*">>}

imageExtensions ==
  {<<"j", "p", "g">>,
   <<"j", "p", "e", "g">>,
   <<"p", "n", "g">>,
   <<"g", "i", "f">>,
   <<"w", "e", "b", "p">>,
   <<"s", "v", "g">>,
   <<"b", "m", "p">>,
   <<"t", "i", "f", "f">>,
   <<"t", "i", "f">>,
   <<"h", "e", "i", "c">>,
   <<"h", "e", "i", "f">>}

INVALID_FILE_TYPE == "This file type is not supported"
FILE_TOO_LARGE == "The file is too large"
FILES_UPLOADED == "Files uploaded successfully"

\* s.startsWith(prefix)
StartsWith(s, prefix) == Len(s) >= Len(prefix) /\ SubSeq(s, 1, Len(prefix)) = prefix

LowerOf ==
  ("A" :> "a") @@ ("B" :> "b") @@ ("C" :> "c") @@ ("D" :> "d") @@ ("E" :> "e")
    @@ ("F" :> "f") @@ ("G" :> "g") @@ ("H" :> "h") @@ ("I" :> "i") @@ ("J" :> "j")
    @@ ("K" :> "k") @@ ("L" :> "l") @@ ("M" :> "m") @@ ("N" :> "n") @@ ("O" :> "o")
    @@ ("P" :> "p") @@ ("Q" :> "q") @@ ("R" :> "r") @@ ("S" :> "s") @@ ("T" :> "t")
    @@ ("U" :> "u") @@ ("V" :> "v") @@ ("W" :> "w") @@ ("X" :> "x") @@ ("Y" :> "y")
    @@ ("Z" :> "z")

\* s.toLowerCase()
toLowerCase(s) == [i \in 1..Len(s) |-> IF s[i] \in DOMAIN LowerOf THEN LowerOf[s[i]] ELSE s[i]]

\* the position of the last dot of s, 0 if it has none
LastDot(s) ==
  IF \E i \in 1..Len(s) : s[i] = "." 
  THEN CHOOSE i \in 1..Len(s) : s[i] = "." /\ \A j \in (i + 1)..Len(s) : s[j] /= "."
  ELSE 0

\* the extension of a last path segment: from its last dot on, nothing when
\* the dot is its first character or the segment is ".."
ExtOf(base, dot) ==
  IF dot <= 1 \/ base = DotDot THEN <<>> ELSE SubSeq(base, dot, Len(base))

\* path.extname
path_extname(p) == ExtOf(path_basename(p), LastDot(path_basename(p)))

\* s.slice(1)
Slice1(s) == IF s = <<>> THEN <<>> ELSE Tail(s)

isImageByExtension(filename) ==
  Slice1(toLowerCase(path_extname(filename))) \in imageExtensions

\* ALLOWED_FILE_TYPES.some(...): the wildcard entry, or the type itself
isTypeAllowed(type) ==
  \E allowedType \in ALLOWED_FILE_TYPES :
     \/ allowedType = <<"i", "m", "a", "g", "e", "/", "*">> /\ StartsWith(type, <<"i", "m", "a", "g", "e", "/">>)
     \/ allowedType = type

\* a faulty size test: the limit itself is refused
TooLarge_atLimit(file) == file.size >= MAX_FILE_SIZE

TooLarge(file) == file.size > MAX_FILE_SIZE

\* `File "${file.name}": ${message}`
FileMessage(name, message) == [file |-> name, text |-> message]

\* what the action returns, with the filesystem it leaves, the native calls
\* made, and for each file in turn whether fs.saveFile was called for it
Uploaded(success, message, hasData, results, saved, f, calls) ==
  [threw |-> FALSE, success |-> success, message |-> message, hasData |-> hasData,
   results |-> results, saved |-> saved, fs |-> f, calls |-> calls]

AllSucceeded(results) == \A i \in 1..Len(results) : results[i].success
SomeSucceeded(results) == \E i \in 1..Len(results) : results[i].success

\* a faulty summary: the partial-success branch is taken first
uploadFiles_done_some(f, results, saved, calls) ==
  IF SomeSucceeded(results)
  THEN Uploaded(TRUE, "Some files were uploaded successfully", TRUE, results, saved, f, calls)
  ELSE IF AllSucceeded(results)
       THEN Uploaded(TRUE, FILES_UPLOADED, TRUE, results, saved, f, calls)
       ELSE Uploaded(FALSE, "Failed to upload any files", TRUE, results, saved, f, calls)

\* after the loop: the overall result
uploadFiles_done(f, results, saved, calls) ==
  IF AllSucceeded(results)
  THEN Uploaded(TRUE, FILES_UPLOADED, TRUE, results, saved, f, calls)
  ELSE IF SomeSucceeded(results)
       THEN Uploaded(TRUE, "Some files were uploaded successfully", TRUE, results, saved, f, calls)
       ELSE Uploaded(FALSE, "Failed to upload any files", TRUE, results, saved, f, calls)

RECURSIVE uploadFiles_loop(_, _, _, _, _, _)

\* results.push({ success: false, message }); continue
uploadFiles_refused(message, f, dirPath, files, results, saved, calls) ==
  uploadFiles_loop(f, dirPath, Tail(files),
                   Append(results, OperationResult(FALSE, FileMessage(Head(files).name, message), <<>>)),
                   Append(saved, FALSE), calls)

\* results.push({ ...result, message }) after fs.saveFile returned
uploadFiles_saved(result, dirPath, files, results, saved, calls) ==
  uploadFiles_loop(result.fs, dirPath, Tail(files),
                   Append(results, OperationResult(result.success,
                                                   FileMessage(Head(files).name, result.message),
                                                   result.data)),
                   Append(saved, TRUE), calls \o result.calls)

\* the try block of one file: the bytes are read, then saved
uploadFiles_try(f, dirPath, files, results, saved, calls) ==
  IF ~Head(files).readable
  THEN uploadFiles_refused("Processing error", f, dirPath, files, results, saved, calls)
  ELSE uploadFiles_saved(fs_saveFile(f, dirPath, Head(files).name,
                                     [length |-> Head(files).size, data |-> Head(files).data],
                                     Head(files).run),
                         dirPath, files, results, saved, calls)

\* the loop body: the type test, the size test, the save
uploadFiles_file(f, dirPath, files, results, saved, calls) ==
  IF ~isTypeAllowed(Head(files).type) /\ ~isImageByExtension(Head(files).name)
  THEN uploadFiles_refused(INVALID_FILE_TYPE, f, dirPath, files, results, saved, calls)
  ELSE IF TooLarge(Head(files))
       THEN uploadFiles_refused(FILE_TOO_LARGE, f, dirPath, files, results, saved, calls)
       ELSE uploadFiles_try(f, dirPath, files, results, saved, calls)

uploadFiles_loop(f, dirPath, files, results, saved, calls) ==
  IF files = <<>> THEN uploadFiles_done(f, results, saved, calls)
  ELSE uploadFiles_file(f, dirPath, files, results, saved, calls)

uploadFiles(f, dirPath, files) ==
  IF files = <<>>
  THEN Uploaded(FALSE, "No files provided", FALSE, <<>>, <<>>, f, <<>>)
  ELSE uploadFiles_loop(f, dirPath, files, <<>>, <<>>, <<>>)

(***************************************************************************)
(* Requests in flight.  A mutation runs to its first await without         *)
(* interruption, and other requests run between the await of its probe     *)
(* (stat) and the await of its native call (mkdir, rename, rm, unlink).     *)
(* A request in flight keeps the paths it resolved, the result of its       *)
(* probe, the filesystem its last step found, and its outcome.              *)
(***************************************************************************)
ProcIds == 1..MaxProcs
RaceOps == {"fs.createFolder", "fs.renameItem", "fs.deleteItem"}

MoveOps == {"fs.renameItem", "fs.moveItem", "fs.saveFile"}
\* the bytes a request in flight saves
UploadBytes == [length |-> 2, data |-> 2]

NoStat == [err |-> "", isDir |-> FALSE]
Seen(st) == [err |-> st.err, isDir |-> st.isDir]

\* what the catch of the operation answers
FailMsg(op) ==
  IF op = "fs.createFolder" THEN "Failed to create folder"
  ELSE IF op = "fs.renameItem" THEN "Failed to rename item"
  ELSE IF op = "fs.moveItem" THEN "Failed to move item"
  ELSE IF op = "fs.saveFile" THEN "Failed to save file"
  ELSE "Failed to delete item"

\* the paths the operation resolves before its first await: the path its
\* native call acts on, the path its probe stats, the new path it returns
Located(a, an, newPath) ==
  [threw |-> a.threw \/ an.threw, absolutePath |-> a.val, target |-> an.val,
   newPath |-> newPath]

\* moveItem: the second argument is the target directory
MoveLocated(ni, nt) ==
  IF nt.threw THEN Located(Thrown, Thrown, <<>>)
  ELSE Located(getAbsolutePath(ni.val),
               getAbsolutePath(path_join(nt.val, path_basename(ni.val))),
               path_join(nt.val, path_basename(ni.val)))

Locate(op, n, name) ==
  IF n.threw THEN Located(Thrown, Thrown, <<>>)
  ELSE IF op = "fs.createFolder"
       THEN Located(getAbsolutePath(path_join(n.val, name)),
                    getAbsolutePath(path_join(n.val, name)), path_join(n.val, name))
  ELSE IF op = "fs.renameItem"
       THEN Located(getAbsolutePath(n.val),
                    getAbsolutePath(path_join(path_dirname(n.val), name)),
                    path_join(path_dirname(n.val), name))
  ELSE IF op = "fs.moveItem"
       THEN MoveLocated(n, normalizePath(name))
  ELSE IF op = "fs.saveFile"
       THEN Located(getAbsolutePath(path_join(n.val, name)),
                    getAbsolutePath(path_join(n.val, name)), path_join(n.val, name))
  ELSE Located(getAbsolutePath(n.val), getAbsolutePath(n.val), n.val)

\* the probe found what lets the operation go on to its native call
Proceeds(op, st) ==
  IF op = "fs.deleteItem" THEN st.err = ""
  ELSE IF op = "fs.listDirectory" THEN st.err = "" /\ st.isDir
  ELSE st.err = "ENOENT"

\* the await that follows the probe: readdir for a listing, the native call
\* of a mutation
AfterProbe(op) == IF op = "fs.listDirectory" THEN "read" ELSE "act"

\* the native calls of a listing up to its probe, and up to its readdir
ListProbeCalls(p) == <<Call("mkdir", DATA_PATH), Call("stat", p.absolutePath)>>
ListReadCalls(p) == Append(ListProbeCalls(p), Call("readdir", p.absolutePath))

\* the operation from the result st of its probe, on the filesystem f of now
Settle(p, st, f) ==
  IF p.op = "fs.createFolder"
  THEN Catch(fs_createFolder_probed(st, f, p.absolutePath, <<Call("stat", p.target)>>),
             FailMsg(p.op))
  ELSE IF p.op = "fs.renameItem"
       THEN Catch(RenameProbed(st, f, p.absolutePath, p.target, p.newPath,
                               "An item with this name already exists",
                               "Item renamed successfully", <<Call("stat", p.target)>>),
                  FailMsg(p.op))
  ELSE IF p.op = "fs.moveItem"
       THEN Catch(RenameProbed(st, f, p.absolutePath, p.target, p.newPath,
                               "An item with this name already exists in the target folder",
                               "Item moved successfully", <<Call("stat", p.target)>>),
                  FailMsg(p.op))
  ELSE IF p.op = "fs.saveFile"
       THEN Catch(fs_saveFile_probed(st, f, p.absolutePath, p.newPath, UploadBytes, FinishRun,
                                     <<Call("mkdir", path_dirname(p.absolutePath)),
                                       Call("stat", p.target)>>),
                  FailMsg(p.op))
  ELSE IF p.op = "fs.listDirectory"
       THEN Rethrow(fs_listDirectory_probed(st, f, p.newPath, p.absolutePath, ListProbeCalls(p)),
                    "Failed to list directory")
  ELSE Catch(fs_deleteItem_probed(st, f, p.absolutePath, <<Call("stat", p.target)>>),
             FailMsg(p.op))

(***************************************************************************)
(* The stream write of saveFileThroughStream, event by event.  The state   *)
(* of a write holds the write stream (pending until its file is opened,    *)
(* open, finished, errored or destroyed), the completed flag, the timer,    *)
(* the time since the start, the events delivered and the results passed    *)
(* to resolve.                                                              *)
(***************************************************************************)
\* setTimeout(..., 30000)
TimeoutMs == 30000
TickMs == TimeoutMs \div TicksPerTimeout

\* a stream write that has not opened its file and ends in an error
NoOpenRun == [event |-> "error", opened |-> FALSE]

\* a faulty 'error' handler: it resolves whether or not the write completed
OnError_unguarded(s) ==
  [s EXCEPT !.timer = IF @ = "armed" THEN "cleared" ELSE @, !.completed = TRUE,
            !.results = Append(@, OperationResult(FALSE, "Error writing file", <<>>))]

\* the timer's callback
OnTimeout(s) ==
  IF s.completed THEN s
  ELSE [s EXCEPT !.ws = "destroyed", !.completed = TRUE,
                 !.results = Append(@, OperationResult(FALSE, "File upload timed out", <<>>))]

\* writeStream.on('error', ...)
OnError(s) ==
  IF s.completed THEN s
  ELSE [s EXCEPT !.timer = "cleared", !.completed = TRUE,
                 !.results = Append(@, OperationResult(FALSE, "Error writing file", <<>>))]

\* writeStream.on('finish', ...)
OnFinish(s) ==
  IF s.completed THEN s
  ELSE [s EXCEPT !.timer = "cleared", !.completed = TRUE,
                 !.results = Append(@, OperationResult(TRUE, "File saved successfully",
                                                       s.relativePath))]

(***************************************************************************)
(* The state: the filesystem, the filesystem before the last operation,    *)
(* the last operation with its arguments and outcome, the requests in      *)
(* flight and the stream write in progress                                 *)
(***************************************************************************)
\* the strings of at most n segments, joined by slashes
SegStrings(n) == {JoinSegs(s) : s \in StringsUpTo(Segments, n)}
Paths == SegStrings(MaxPathSegs)
Dirs == SegStrings(MaxDirSegs)
Names == SegStrings(MaxNameSegs) \cup OddNames
\* the names the server actions are called with: those, and one name for
\* each reserved and control character
ActionNames == Names \cup {<<c>> : c \in ReservedChars \cup ControlChars}
Buffers == {[length |-> StreamThreshold, data |-> 1],
            [length |-> StreamThreshold + 1, data |-> 2]}

View(out) ==
  [threw |-> out.threw, success |-> out.success, message |-> out.message,
   hasData |-> out.hasData, data |-> out.data, isListing |-> out.isListing,
   listing |-> out.listing, bytes |-> out.bytes, streamed |-> out.streamed,
   calls |-> out.calls]

InitFs == [x \in {Root} |-> DirNode]
NoOp == [op |-> "none", a |-> <<>>, b |-> <<>>, buf |-> NoBytes, run |-> FinishRun,
         out |-> View(Base(InitFs, <<>>))]
NoProbe == [input |-> <<>>, done |-> FALSE, out |-> Returned(<<>>)]
IdleProc == [op |-> "none", pc |-> "idle", absolutePath |-> <<>>, target |-> <<>>,
             newPath |-> <<>>, st |-> NoStat, found |-> InitFs,
             files |-> <<>>, children |-> <<>>, left |-> {},
             out |-> Base(InitFs, <<>>)]
NoProcs == [i \in ProcIds |-> IdleProc]
NoStream == [ws |-> "none", completed |-> FALSE, timer |-> "none", clock |-> 0,
             absolutePath |-> <<>>, relativePath |-> <<>>, fileBuffer |-> NoBytes,
             events |-> <<>>, results |-> <<>>]

Entries(f) == DOMAIN f \ {Root}

Init ==
  /\ fs = InitFs
  /\ pre = InitFs
  /\ last = NoOp
  /\ probe = NoProbe
  /\ procs = NoProcs
  /\ stream = NoStream

\* one request at a time: an operation starts when the service is idle
Idle == last.op = "none"

Step(op, a, b, buf, run, out) ==
  /\ Cardinality(Entries(out.fs)) <= MaxEntries
  /\ fs' = out.fs
  /\ pre' = fs
  /\ last' = [op |-> op, a |-> a, b |-> b, buf |-> buf, run |-> run, out |-> View(out)]
  /\ UNCHANGED <<probe, procs, stream>>

ListDirectory(p) ==
  /\ Idle
  /\ Step("fs.listDirectory", p, <<>>, NoBytes, FinishRun, fs_listDirectory(fs, p))

GetDirectoryContents(p) ==
  /\ Idle
  /\ Step("getDirectoryContents", p, <<>>, NoBytes, FinishRun, getDirectoryContents(fs, p))

ListDirectoryRecursively(p) ==
  /\ Idle
  /\ Step("fs.listDirectoryRecursively", p, <<>>, NoBytes, FinishRun,
          fs_listDirectoryRecursively(fs, p))

FsCreateFolder(p, name) ==
  /\ Idle
  /\ Step("fs.createFolder", p, name, NoBytes, FinishRun, fs_createFolder(fs, p, name))

CreateFolder(p, name) ==
  /\ Idle
  /\ Step("createFolder", p, name, NoBytes, FinishRun, createFolder(fs, p, name))

FsRenameItem(p, name) ==
  /\ Idle
  /\ Step("fs.renameItem", p, name, NoBytes, FinishRun, fs_renameItem(fs, p, name))

RenameItem(p, name) ==
  /\ Idle
  /\ Step("renameItem", p, name, NoBytes, FinishRun, renameItem(fs, p, name))

DeleteItem(p) ==
  /\ Idle
  /\ Step("fs.deleteItem", p, <<>>, NoBytes, FinishRun, fs_deleteItem(fs, p))

MoveItem(p, target) ==
  /\ Idle
  /\ Step("fs.moveItem", p, target, NoBytes, FinishRun, fs_moveItem(fs, p, target))

\* the stream's run is a choice only where the stream is reached
SaveFileStep(p, name, buf, run, out) ==
  /\ run = FinishRun \/ out.streamed
  /\ Step("fs.saveFile", p, name, buf, run, out)

SaveFile(p, name, buf, run) ==
  /\ Idle
  /\ SaveFileStep(p, name, buf, run, fs_saveFile(fs, p, name, buf, run))

GetFileContent(p) ==
  /\ Idle
  /\ Step("fs.getFileContent", p, <<>>, NoBytes, FinishRun, fs_getFileContent(fs, p))

GetFile(p) ==
  /\ Idle
  /\ Step("GET", p, <<>>, NoBytes, FinishRun, GET(fs, p))

\* the outcome has been handed to the caller: the service is idle again
Return ==
  /\ last.op /= "none"
  /\ last' = NoOp
  /\ pre' = fs
  /\ UNCHANGED <<fs, probe, procs, stream>>

Next ==
  \/ Return
  \/ \E p \in Paths : ListDirectory(p)
  \/ \E p \in Paths : GetDirectoryContents(p)
  \/ \E p \in Paths : ListDirectoryRecursively(p)
  \/ \E p \in Paths, name \in Names : FsCreateFolder(p, name)
  \/ \E p \in Dirs, name \in ActionNames : CreateFolder(p, name)
  \/ \E p \in Paths, name \in Names : FsRenameItem(p, name)
  \/ \E p \in Dirs, name \in ActionNames : RenameItem(p, name)
  \/ \E p \in Paths : DeleteItem(p)
  \/ \E p \in Paths, target \in Dirs : MoveItem(p, target)
  \/ \E p \in Dirs, name \in Names, buf \in Buffers, run \in StreamRuns :
        SaveFile(p, name, buf, run)
  \/ \E p \in Paths : GetFileContent(p)
  \/ \E p \in Paths : GetFile(p)

Spec == Init /\ [][Next]_vars

(***************************************************************************)
(* The normalizePath probe: one input, normalised once                     *)
(***************************************************************************)
InitProbe ==
  /\ fs = InitFs
  /\ pre = InitFs
  /\ last = NoOp
  /\ procs = NoProcs
  /\ stream = NoStream
  /\ \E p \in StringsUpTo(ProbeChars, MaxProbeLen) :
        probe = [input |-> p, done |-> FALSE, out |-> Returned(<<>>)]

Normalize ==
  /\ ~probe.done
  /\ probe' = [probe EXCEPT !.done = TRUE, !.out = normalizePath(probe.input)]
  /\ UNCHANGED <<fs, pre, last, procs, stream>>

NextProbe == Normalize

SpecProbe == InitProbe /\ [][NextProbe]_vars

(***************************************************************************)
(* Concurrent mutations: createFolder, renameItem and deleteItem requests, *)
(* one for each request slot, interleaving at their awaits, over a         *)
(* filesystem that holds a directory, a file or nothing at each plain name *)
(***************************************************************************)
PlainNames == {<<"a">>, <<"b">>}
SomeBytes == [length |-> 1, data |-> 1]

FsOf(shape) ==
  [k \in {Root} \cup {Key(path_join(DATA_PATH, n)) : n \in {m \in PlainNames : shape[m] /= "none"}} |->
     IF k = Root \/ shape[path_basename(k)] = "dir" THEN DirNode ELSE FileNode(SomeBytes)]
RaceFs == {FsOf(shape) : shape \in [PlainNames -> {"none", "dir", "file"}]}

InitRace ==
  /\ fs \in RaceFs
  /\ pre = fs
  /\ last = NoOp
  /\ probe = NoProbe
  /\ procs = NoProcs
  /\ stream = NoStream

\* saveFile awaits mkdir before its probe
FirstAwait(op) == IF op = "fs.saveFile" THEN "ensure" ELSE "probe"

\* the request runs up to its first await: a rejected path ends it there
Began(i, op, loc) ==
  /\ procs' = [procs EXCEPT ![i] =
        IF loc.threw
        THEN [IdleProc EXCEPT !.op = op, !.pc = "done", !.found = fs,
                              !.out = Catch(InvalidPath(fs), FailMsg(op))]
        ELSE [IdleProc EXCEPT !.op = op, !.pc = FirstAwait(op), !.found = fs,
                              !.absolutePath = loc.absolutePath,
                              !.target = loc.target, !.newPath = loc.newPath]]
  /\ UNCHANGED <<fs, pre, last, probe, stream>>

Begin(i, op, a, name) ==
  /\ procs[i].pc = "idle"
  /\ Began(i, op, Locate(op, normalizePath(a), name))

\* a faulty probe: a path another request is about to create counts as taken
ProbeStat_reserved(i) ==
  IF \E j \in ProcIds \ {i} : procs[j].pc = "act" /\ procs[j].target = procs[i].target
  THEN [err |-> "", isDir |-> TRUE, fs |-> fs]
  ELSE fsPromises_stat(fs, procs[i].target)

\* await fsPromises.stat(...) of the request's probe
ProbeStat(i) == fsPromises_stat(fs, procs[i].target)

Probed(i, st) ==
  /\ procs' = [procs EXCEPT ![i] =
        IF Proceeds(procs[i].op, st)
        THEN [procs[i] EXCEPT !.pc = AfterProbe(procs[i].op), !.st = Seen(st)]
        ELSE [procs[i] EXCEPT !.pc = "done", !.st = Seen(st), !.found = fs,
                              !.out = Settle(procs[i], st, fs)]]
  /\ UNCHANGED <<fs, pre, last, probe, stream>>

Probe(i) ==
  /\ procs[i].pc = "probe"
  /\ Probed(i, ProbeStat(i))

\* the native call of the request, made on the filesystem as it is by now
Acted(i, out) ==
  /\ Cardinality(Entries(out.fs)) <= MaxEntries
  /\ procs' = [procs EXCEPT ![i] =
        [procs[i] EXCEPT !.pc = "done", !.found = fs, !.out = out]]
  /\ fs' = out.fs
  /\ UNCHANGED <<pre, last, probe, stream>>

Act(i) ==
  /\ procs[i].pc = "act"
  /\ Acted(i, Settle(procs[i], procs[i].st, fs))

NextRace ==
  \/ \E i \in ProcIds, op \in RaceOps, a \in Dirs, name \in PlainNames :
        Begin(i, op, a, name)
  \/ \E i \in ProcIds : Probe(i)
  \/ \E i \in ProcIds : Act(i)

SpecRace == InitRace /\ [][NextRace]_vars

(***************************************************************************)
(* Two requests of renameItem, moveItem and saveFile.  saveFile awaits     *)
(* mkdir of the target's directory, then its probe, then its write.        *)
(***************************************************************************)
\* await fsPromises.mkdir(dirAbsolutePath, { recursive: true }) has returned
Ensured(i, mk) ==
  /\ Cardinality(Entries(mk.fs)) <= MaxEntries
  /\ procs' = [procs EXCEPT ![i] =
        IF mk.err /= ""
        THEN [procs[i] EXCEPT !.pc = "done", !.found = fs,
                              !.out = Catch(Throw(mk.err, fs, <<Call("mkdir", path_dirname(procs[i].absolutePath))>>),
                                            FailMsg(procs[i].op))]
        ELSE [procs[i] EXCEPT !.pc = "probe"]]
  /\ fs' = mk.fs
  /\ UNCHANGED <<pre, last, probe, stream>>

Ensure(i) ==
  /\ procs[i].pc = "ensure"
  /\ Ensured(i, fsPromises_mkdir(fs, path_dirname(procs[i].absolutePath)))

NextMoves ==
  \/ \E i \in ProcIds, op \in MoveOps, a \in Dirs, name \in PlainNames :
        Begin(i, op, a, name)
  \/ \E i \in ProcIds : Ensure(i)
  \/ \E i \in ProcIds : Probe(i)
  \/ \E i \in ProcIds : Act(i)

SpecMoves == InitRace /\ [][NextMoves]_vars

(***************************************************************************)
(* Listings in flight.  listDirectory awaits the data directory and the   *)
(* stat of its path, then readdir, then the stats of the children, which   *)
(* Promise.all lets complete in any order; deleteItem, renameItem and      *)
(* moveItem requests run in between.                                       *)
(***************************************************************************)
ListRaceOps == {"fs.deleteItem", "fs.renameItem", "fs.moveItem"}

\* the listing runs to the stat of its path; the data directory is ensured
ListBegan(i, mk, loc) ==
  /\ procs' = [procs EXCEPT ![i] =
        IF mk.err /= "" \/ loc.threw
        THEN [IdleProc EXCEPT !.op = "fs.listDirectory", !.pc = "done", !.found = fs,
                              !.out = Throw("Failed to list directory", mk.fs,
                                            <<Call("mkdir", DATA_PATH)>>)]
        ELSE [IdleProc EXCEPT !.op = "fs.listDirectory", !.pc = "probe", !.found = fs,
                              !.absolutePath = loc.absolutePath,
                              !.target = loc.target, !.newPath = loc.newPath]]
  /\ fs' = mk.fs
  /\ UNCHANGED <<pre, last, probe, stream>>

ListBegin(i, dirPath) ==
  /\ procs[i].pc = "idle"
  /\ ListBegan(i, fsPromises_mkdir(fs, DATA_PATH),
               Locate("fs.listDirectory", normalizePath(dirPath), <<>>))

\* a child's path is rejected before its stat: its callback throws
Rejecting(normalizedPath, files) ==
  \E c \in 1..Len(files) : getAbsolutePath(path_join(normalizedPath, files[c])).threw

NoChild == [threw |-> FALSE, null |-> TRUE, call |-> Call("stat", <<>>),
            item |-> NoItem(<<>>, <<>>)]

\* readdir has returned: the callbacks of files.map have issued their stats
ListReadDone(i, rd) ==
  /\ procs' = [procs EXCEPT ![i] =
        IF rd.err /= "" \/ rd.files = <<>> \/ Rejecting(procs[i].newPath, rd.files)
        THEN [procs[i] EXCEPT !.pc = "done", !.found = fs,
                !.out = Rethrow(fs_listDirectory_read(rd, fs, procs[i].newPath,
                                                      ListReadCalls(procs[i])),
                                "Failed to list directory")]
        ELSE [procs[i] EXCEPT !.pc = "stat", !.files = rd.files,
                !.children = [c \in 1..Len(rd.files) |-> NoChild],
                !.left = 1..Len(rd.files)]]
  /\ UNCHANGED <<fs, pre, last, probe, stream>>

ListRead(i) ==
  /\ procs[i].pc = "read"
  /\ ListReadDone(i, fsPromises_readdir(fs, procs[i].absolutePath))

\* the listing once every callback has settled
ListSettled(p, children, f) ==
  IF p.left = {}
  THEN [p EXCEPT !.pc = "done", !.found = f, !.children = children,
                 !.out = Rethrow(fs_listDirectory_mapped(children, f, p.newPath,
                                                         ListReadCalls(p)),
                                 "Failed to list directory")]
  ELSE [p EXCEPT !.children = children]

\* the stat of one child has returned; after the last one the listing returns
ListStatted(i, c, child) ==
  /\ procs' = [procs EXCEPT ![i] =
        ListSettled([procs[i] EXCEPT !.left = @ \ {c}],
                    [procs[i].children EXCEPT ![c] = child], fs)]
  /\ UNCHANGED <<fs, pre, last, probe, stream>>

ListStat(i, c) ==
  /\ procs[i].pc = "stat"
  /\ c \in procs[i].left
  /\ ListStatted(i, c, StatChild(fs, procs[i].newPath, procs[i].files[c]))

NextList ==
  \/ \E i \in ProcIds, dirPath \in Dirs : ListBegin(i, dirPath)
  \/ \E i \in ProcIds, op \in ListRaceOps, a \in Dirs, name \in PlainNames :
        Begin(i, op, a, name)
  \/ \E i \in ProcIds : Probe(i)
  \/ \E i \in ProcIds : ListRead(i)
  \/ \E i \in ProcIds, c \in 1..MaxEntries : ListStat(i, c)
  \/ \E i \in ProcIds : Act(i)

SpecList == InitRace /\ [][NextList]_vars

(***************************************************************************)
(* One large-file save, from the call of saveFile to the settling of its   *)
(* stream write.  Time passes in ticks while the timer is armed and never  *)
(* passes the timer's deadline without the timer firing.                   *)
(***************************************************************************)
InitStream ==
  /\ fs \in RaceFs
  /\ pre = fs
  /\ last = NoOp
  /\ probe = NoProbe
  /\ procs = NoProcs
  /\ stream = NoStream

\* saveFile has come to saveFileThroughStream: the streams and the timer are set up
Started(out, relativePath, fileBuffer) ==
  /\ out.calls /= <<>>
  /\ out.calls[Len(out.calls)].fn = "createWriteStream"
  /\ stream' = [NoStream EXCEPT !.ws = "pending", !.timer = "armed",
                                 !.absolutePath = out.calls[Len(out.calls)].path,
                                 !.relativePath = relativePath,
                                 !.fileBuffer = fileBuffer]
  /\ fs' = out.fs
  /\ pre' = fs
  /\ UNCHANGED <<last, probe, procs>>

StartStream(p, name, buf) ==
  /\ stream.ws = "none"
  /\ Started(fs_saveFile(fs, p, name, buf, NoOpenRun),
             path_join(normalizePath(p).val, name), buf)

\* the write stream opens its file: the file is there, empty
StreamOpen ==
  /\ stream.ws = "pending"
  /\ OpenErr(fs, stream.absolutePath) = ""
  /\ stream' = [stream EXCEPT !.ws = "open"]
  /\ fs' = Put(fs, Key(stream.absolutePath), FileNode(Prefix(stream.fileBuffer)))
  /\ UNCHANGED <<pre, last, probe, procs>>

\* every byte is written: 'finish'
StreamFinish ==
  /\ stream.ws = "open"
  /\ stream' = OnFinish([stream EXCEPT !.ws = "finished",
                                        !.events = Append(@, "finish")])
  /\ fs' = Put(fs, Key(stream.absolutePath), FileNode(stream.fileBuffer))
  /\ UNCHANGED <<pre, last, probe, procs>>

\* 'error': the open or a write failed, or, after the finish or the timeout's
\* destroy, the close did
StreamError ==
  /\ stream.ws \in {"pending", "open", "finished", "destroyed"}
  /\ \A i \in 1..Len(stream.events) : stream.events[i] /= "error"
  /\ stream' = OnError([stream EXCEPT
                          !.ws = IF @ \in {"pending", "open"} THEN "errored" ELSE @,
                          !.events = Append(@, "error")])
  /\ UNCHANGED <<fs, pre, last, probe, procs>>

TimerFires ==
  /\ stream.timer = "armed"
  /\ stream.clock >= TimeoutMs
  /\ stream' = OnTimeout([stream EXCEPT !.timer = "fired",
                                         !.events = Append(@, "timeout")])
  /\ UNCHANGED <<fs, pre, last, probe, procs>>

Tick ==
  /\ stream.timer = "armed"
  /\ stream.clock < TimeoutMs
  /\ stream' = [stream EXCEPT !.clock = @ + TickMs]
  /\ UNCHANGED <<fs, pre, last, probe, procs>>

NextStream ==
  \/ \E p \in Dirs, name \in Names, buf \in Buffers : StartStream(p, name, buf)
  \/ StreamOpen
  \/ StreamFinish
  \/ StreamError
  \/ TimerFires
  \/ Tick

\* the event loop runs the timer's callback when it is due
SpecStream ==
  InitStream /\ [][NextStream]_vars /\ WF_vars(Tick) /\ WF_vars(TimerFires)

(***************************************************************************)
(* Uploads: one batch of files is submitted to the upload action.          *)
(***************************************************************************)
UploadNames == {<<"a", ".", "P", "N", "G">>, <<"a", ".", "t", "x", "t">>, <<".", "p", "n", "g">>}
\* a type the allow-list names, one only its wildcard matches, one it does not match
UploadTypes == {<<"a", "p", "p", "l", "i", "c", "a", "t", "i", "o", "n", "/", "o", "c", "t", "e", "t", "-", "s", "t", "r", "e", "a", "m">>,
                <<"i", "m", "a", "g", "e", "/", "x">>,
                <<"t", "e", "x", "t", "/", "x">>}
UploadSizes == {1, MAX_FILE_SIZE, MAX_FILE_SIZE + 1}
UploadRuns == {FinishRun, NoOpenRun, [event |-> "timeout", opened |-> TRUE]}
UploadDirs == {<<>>, <<"a">>, DotDot}

Files ==
  {file \in [name : UploadNames, type : UploadTypes, size : UploadSizes, data : {1},
             readable : BOOLEAN, run : UploadRuns] :
     file.run = FinishRun \/ (file.readable /\ file.size = MAX_FILE_SIZE)}

Batches == UNION {[1..n -> Files] : n \in 0..MaxFiles}

\* the root, empty or holding a file with one of the names
UploadFs ==
  {InitFs, Put(InitFs, Key(path_join(DATA_PATH, <<"a", ".", "P", "N", "G">>)), FileNode(SomeBytes))}

InitUpload ==
  /\ fs \in UploadFs
  /\ pre = fs
  /\ last = NoOp
  /\ probe = NoProbe
  /\ procs = NoProcs
  /\ stream = NoStream

UploadStep(dirPath, files, out) ==
  /\ fs' = out.fs
  /\ pre' = fs
  /\ last' = [op |-> "uploadFiles", a |-> dirPath, files |-> files,
              out |-> [out EXCEPT !.fs = InitFs]]
  /\ UNCHANGED <<probe, procs, stream>>

UploadFiles(dirPath, files) ==
  /\ Idle
  /\ UploadStep(dirPath, files, uploadFiles(fs, dirPath, files))

NextUpload == \E dirPath \in UploadDirs, files \in Batches : UploadFiles(dirPath, files)

SpecUpload == InitUpload /\ [][NextUpload]_vars
(***************************************************************************)
(* Properties.  They read the last operation (last), the filesystem before *)
(* it (pre) and after it (fs).                                             *)
(***************************************************************************)
ServiceOps == {"fs.listDirectory", "fs.listDirectoryRecursively", "fs.createFolder",
               "fs.renameItem", "fs.deleteItem", "fs.moveItem", "fs.saveFile",
               "fs.getFileContent"}
Mutations == {"fs.createFolder", "fs.renameItem", "fs.deleteItem", "fs.moveItem",
              "fs.saveFile"}
ListOps == {"fs.listDirectory", "fs.listDirectoryRecursively"}

\* the absolute path a root-relative path stands for
Abs(p) == path_join(DATA_PATH, p)
\* the root-relative path is accepted by normalizePath, and what it names
Accepted(p) == ~normalizePath(p).threw
Norm(p) == normalizePath(p).val

\* C1: every path an operation hands to a native filesystem call is the root
\* or a descendant of the root.
C1_CallsStayInRoot ==
  \A i \in 1..Len(last.out.calls) : InRoot(last.out.calls[i].path)

\* walking the segments from the root, a ".." is met with no name left to cancel
RECURSIVE Climbs(_, _)
Climbs(segs, depth) ==
  IF segs = <<>> THEN FALSE
  ELSE IF Head(segs) = DotDot THEN depth = 0 \/ Climbs(Tail(segs), depth - 1)
  ELSE IF Head(segs) \in {<<>>, <<".">>} THEN Climbs(Tail(segs), depth)
  ELSE Climbs(Tail(segs), depth + 1)

\* "%2e" read as "."
RECURSIVE UrlDecode(_)
UrlDecode(s) ==
  IF s = <<>> THEN <<>>
  ELSE IF Len(s) >= 3 /\ SubSeq(s, 1, 3) = <<"%", "2", "e">>
       THEN <<".">> \o UrlDecode(SubSeq(s, 4, Len(s)))
  ELSE <<Head(s)>> \o UrlDecode(Tail(s))

HasDotDotSegment(s) == \E i \in 1..Len(Split(s)) : Split(s)[i] = DotDot
\* ".." appears only as a whole segment, never inside a name
DotsOnlyAsSegments(s) ==
  \A i \in 1..Len(Split(s)) : Split(s)[i] = DotDot \/ ~Includes(Split(s)[i], DotDot)

Rejected ==
  \/ ~Accepted(last.a)
  \/ last.op = "fs.moveItem" /\ ~Accepted(last.b)

\* C3: an operation of the service whose path normalizePath rejects has issued
\* no native filesystem call.
C3_RejectedBeforeAnyCall ==
  last.op \in ServiceOps /\ Rejected => last.out.calls = <<>>

\* C4: createFolder, renameItem, deleteItem, moveItem and saveFile of the
\* service return a result for every input and every filesystem; none throws.
C4_MutationsNeverThrow == last.op \in Mutations => ~last.out.threw

\* a native call failed with an I/O error and the mutation answered all the same
C4_Witness ==
  /\ last.op \in Mutations
  /\ last.out.calls /= <<>>
  /\ last.out.message \in {"Failed to create folder", "Failed to rename item",
                           "Failed to delete item", "Failed to move item",
                           "Failed to save file"}

\* the entry saveFile(dirPath, fileName) is to write
SaveTarget == Abs(path_join(Norm(last.a), last.b))

\* C5: saveFile on a dirPath/fileName where an entry exists returns the
\* already-exists failure and leaves the filesystem, the entry with it, as it was.
C5_SaveNeverOverwrites ==
  /\ last.op = "fs.saveFile"
  /\ Accepted(last.a)
  /\ InRoot(SaveTarget)
  /\ fsPromises_stat(pre, SaveTarget).err = ""
  => /\ ~last.out.success
     /\ last.out.message = "A file with this name already exists"
     /\ fs = pre

\* a file stood at the target and the save was refused
C5_Witness ==
  /\ last.op = "fs.saveFile"
  /\ Accepted(last.a)
  /\ IsFileAt(pre, Key(SaveTarget))
  /\ last.out.message = "A file with this name already exists"
  /\ fs = pre

\* a name the actions' validation lets through
ValidName(name) ==
  /\ name /= <<>>
  /\ \A i \in 1..Len(name) : name[i] \notin ReservedChars \cup ControlChars

\* the entry createFolder(parent, name) is to make
FolderTarget == Abs(path_join(Norm(last.a), last.b))

\* C6, first call: createFolder(parent, name) with a valid name and nothing at
\* parent/name succeeds and the directory exists afterwards.
C6_FirstCreateSucceeds ==
  /\ last.op \in {"fs.createFolder", "createFolder"}
  /\ ValidName(last.b)
  /\ Accepted(last.a)
  /\ InRoot(FolderTarget)
  /\ fsPromises_stat(pre, FolderTarget).err = "ENOENT"
  => /\ last.out.success
     /\ IsDirAt(fs, Key(FolderTarget))

\* the item renameItem(path, newName) names, and its sibling of the new name
RenameSource == Key(Abs(Norm(last.a)))
RenameSibling == Abs(path_join(path_dirname(Norm(last.a)), last.b))

\* C7: renameItem(path, newName) with an entry at parent(path)/newName returns
\* the already-exists failure and leaves the filesystem (the item, the sibling,
\* their contents and subtrees) as it was.
C7_RenameOntoSiblingRefused ==
  /\ last.op = "fs.renameItem"
  /\ Accepted(last.a)
  /\ InRoot(RenameSibling)
  /\ fsPromises_stat(pre, RenameSibling).err = ""
  => /\ ~last.out.success
     /\ last.out.message = "An item with this name already exists"
     /\ fs = pre

\* the item and a different sibling of the new name both stood there
C7_Witness ==
  /\ last.op = "fs.renameItem"
  /\ Accepted(last.a)
  /\ ExistsAt(pre, RenameSource)
  /\ RenameSource /= Root
  /\ InRoot(RenameSibling)
  /\ ExistsAt(pre, Key(RenameSibling))
  /\ Key(RenameSibling) \notin {RenameSource, Root}
  /\ last.out.message = "An item with this name already exists"

\* where a successful rename has to put the item: its parent, the new name
RenameDest == path_join(path_dirname(RenameSource), last.b)
\* where it has to put the entry k of the item's subtree
Moved(k) == RenameDest \o SubSeq(k, Len(RenameSource) + 1, Len(k))

\* C8: a successful renameItem(path, newName) of an item below the root, with
\* a valid newName, leaves the item with its whole subtree at
\* parent(path)/newName, nothing at path, every other entry as it was, and
\* returns that path, of the same parent, in data.newPath.
C8_RenameMovesToSibling ==
  /\ last.op \in {"fs.renameItem", "renameItem"}
  /\ ValidName(last.b)
  /\ last.out.success
  => /\ RenameSource \in DOMAIN pre
     /\ RenameSource /= Root
     /\ \A k \in Subtree(pre, RenameSource) :
           /\ k \notin DOMAIN fs
           /\ Moved(k) \in DOMAIN fs
           /\ fs[Moved(k)] = pre[k]
     /\ \A k \in DOMAIN pre \ Subtree(pre, RenameSource) :
           k \in DOMAIN fs /\ fs[k] = pre[k]
     /\ Cardinality(DOMAIN fs) = Cardinality(DOMAIN pre)
     /\ last.out.hasData
     /\ Key(Abs(last.out.data)) = RenameDest
     /\ path_dirname(Key(Abs(last.out.data))) = path_dirname(RenameSource)

\* a directory with an entry below it was renamed through the action
C8_Witness ==
  /\ last.op = "renameItem"
  /\ ValidName(last.b)
  /\ last.out.success
  /\ IsDirAt(pre, RenameSource)
  /\ Subtree(pre, RenameSource) /= {RenameSource}
  /\ Moved(RenameSource) \in DOMAIN fs

\* the name is empty or holds a reserved or a control character
BadName(name) ==
  \/ name = <<>>
  \/ \E i \in 1..Len(name) :
        name[i] \in {"<", ">", ":", "\"", "/", "\\", "|", "?", "*", "\t", "\n", "\r"}

\* C9: the actions createFolder and renameItem, given an empty name or one
\* with a reserved or control character, return the invalid-name failure,
\* issue no filesystem call and leave the filesystem as it was.
C9_InvalidNameRefused ==
  last.op \in {"createFolder", "renameItem"} /\ BadName(last.b)
  => /\ ~last.out.success
     /\ last.out.message = INVALID_NAME
     /\ last.out.calls = <<>>
     /\ fs = pre

\* a name with a slash in it was refused where its target did not exist
C9_Witness ==
  /\ last.op = "createFolder"
  /\ last.b = <<"a", "/", "b">>
  /\ Accepted(last.a)
  /\ ~ExistsAt(pre, Key(FolderTarget))
  /\ last.out.message = INVALID_NAME

\* the entry deleteItem(path) names
DeleteTarget == Key(Abs(Norm(last.a)))

\* C10: after a successful deleteItem on a directory, the directory and every
\* entry that was below it are gone, every other entry is as it was, and
\* listDirectory of the path returns no items.
C10_DeleteRemovesSubtree ==
  /\ last.op = "fs.deleteItem"
  /\ last.out.success
  /\ IsDirAt(pre, DeleteTarget)
  => /\ \A k \in Subtree(pre, DeleteTarget) : k \notin DOMAIN fs
     /\ \A k \in DOMAIN pre \ Subtree(pre, DeleteTarget) :
           k \in DOMAIN fs /\ fs[k] = pre[k]
     /\ DOMAIN fs \subseteq DOMAIN pre
     /\ ~fs_listDirectory(fs, last.a).threw
     /\ fs_listDirectory(fs, last.a).listing.items = <<>>

\* the directory held an entry, and an entry stood beside it
C10_Witness ==
  /\ last.op = "fs.deleteItem"
  /\ last.out.success
  /\ IsDirAt(pre, DeleteTarget)
  /\ Subtree(pre, DeleteTarget) /= {DeleteTarget}
  /\ DOMAIN pre \ (Subtree(pre, DeleteTarget) \cup {Root}) /= {}
  /\ DOMAIN fs = DOMAIN pre \ Subtree(pre, DeleteTarget)

\* the item moveItem(source, targetDir) names, and targetDir/basename(source)
MoveSource == Key(Abs(Norm(last.a)))
MoveDest == Abs(path_join(Norm(last.b), path_basename(Norm(last.a))))
\* where a successful move has to put the entry k of the item's subtree
MovedTo(k) == Key(MoveDest) \o SubSeq(k, Len(MoveSource) + 1, Len(k))

\* C12: moveItem(source, targetDir) with an entry at targetDir/basename(source)
\* returns the already-exists failure and changes nothing; a successful
\* moveItem leaves the item with its content or subtree at that destination,
\* nothing at source, every other entry as it was, and returns the destination
\* in data.newPath.
C12_MoveToTargetDir ==
  /\ last.op = "fs.moveItem" /\ Accepted(last.a) /\ Accepted(last.b)
       /\ fsPromises_stat(pre, MoveDest).err = ""
     => /\ ~last.out.success
        /\ last.out.message = "An item with this name already exists in the target folder"
        /\ fs = pre
  /\ last.op = "fs.moveItem" /\ last.out.success
     => /\ MoveSource \in DOMAIN pre
        /\ Key(MoveDest) \notin DOMAIN pre
        /\ \A k \in Subtree(pre, MoveSource) :
              /\ k \notin DOMAIN fs
              /\ MovedTo(k) \in DOMAIN fs
              /\ fs[MovedTo(k)] = pre[k]
        /\ \A k \in DOMAIN pre \ Subtree(pre, MoveSource) :
              k \in DOMAIN fs /\ fs[k] = pre[k]
        /\ Cardinality(DOMAIN fs) = Cardinality(DOMAIN pre)
        /\ last.out.hasData
        /\ last.out.data = path_join(Norm(last.b), path_basename(Norm(last.a)))

\* a directory with an entry below it was moved into another directory
C12_Witness ==
  /\ last.op = "fs.moveItem"
  /\ last.out.success
  /\ IsDirAt(pre, MoveSource)
  /\ Subtree(pre, MoveSource) /= {MoveSource}
  /\ path_dirname(Key(MoveDest)) /= path_dirname(MoveSource)
  /\ IsDirAt(fs, Key(MoveDest))

C13_Witness ==
  /\ last.op = "fs.saveFile"
  /\ last.out.success
  /\ last.out.streamed
  /\ last.buf.length > StreamThreshold
  /\ last.a = <<"a">>
  /\ fs_getFileContent(fs, last.a \o <<"/">> \o last.b).bytes = last.buf

\* the directory a listing of last.a is asked for
ListTarget == Key(Abs(Norm(last.a)))

\* the parent of a listing names the directory holding the listed directory
ParentOfTarget(l) == ~l.parentNull /\ Key(Abs(l.parent)) = path_dirname(ListTarget)

\* C16: listing a path at which nothing exists returns, without throwing, a
\* listing with no items whose parent is the parent of the requested path, and
\* does not create the requested directory.
C16_MissingDirectoryListsEmpty ==
  /\ last.op \in {"fs.listDirectory", "getDirectoryContents"}
  /\ Accepted(last.a)
  /\ ~ExistsAt(pre, ListTarget)
  => /\ ~last.out.threw
     /\ last.out.isListing
     /\ last.out.listing.items = <<>>
     /\ ListTarget = Root \/ ParentOfTarget(last.out.listing)
     /\ ~ExistsAt(fs, ListTarget)

\* C17: listing a path at which a file stands fails with the not-a-directory
\* error: not with the generic failure, and not with the empty listing a
\* missing path gets.
C17_FileListsNotADirectory ==
  /\ last.op \in {"fs.listDirectory", "getDirectoryContents"}
  /\ Accepted(last.a)
  /\ IsFileAt(pre, ListTarget)
  => /\ last.out.threw
     /\ last.out.message = "Path is not a directory"

\* a path of a listing is root-relative: no leading slash, no ".." segment
RootRelative(s) == (s = <<>> \/ s[1] /= "/") /\ ~HasDotDotSegment(s)

\* C18: in every listing the list-directory operation returns, for any input,
\* the listing's path, its parent and every item's path have no leading slash
\* and no ".." segment.
C18_ListingPathsRootRelative ==
  last.op \in {"getDirectoryContents", "fs.listDirectory"} /\ last.out.isListing
  => /\ RootRelative(last.out.listing.path)
     /\ last.out.listing.parentNull \/ RootRelative(last.out.listing.parent)
     /\ \A i \in 1..Len(last.out.listing.items) :
           RootRelative(last.out.listing.items[i].path)

\* the string is made of slashes only (the empty string among them)
OnlySlashes(s) == \A i \in 1..Len(s) : s[i] = "/"

\* C19: normalizePath returns the empty string for the empty input and for
\* every input made only of slashes.
C19_SlashesNormalizeToRoot ==
  probe.done /\ OnlySlashes(probe.input)
  => ~probe.out.threw /\ probe.out.val = <<>>

\* C20: in every listing listDirectory or listDirectoryRecursively returns,
\* parent is null exactly when the requested path denotes the root, in any
\* spelling; otherwise parent names the directory that holds the listed one,
\* the root for a top-level directory.
C20_ParentNullOnlyAtRoot ==
  last.op \in ListOps /\ last.out.isListing
  => /\ last.out.listing.parentNull <=> ListTarget = Root
     /\ ListTarget /= Root => ParentOfTarget(last.out.listing)

\* the request has ended
Ended(i) == procs[i].pc = "done"

Claims(i, k) ==
  /\ procs[i].op \in {"fs.createFolder", "fs.renameItem"}
  /\ procs[i].pc \in {"probe", "act"}
  /\ Key(procs[i].target) = k

\* C14: while one createFolder or renameItem has passed its existence check
\* and not yet acted, the check of another one for the same, still unoccupied
\* new path passes as well: both reach the creation step.
C14_BothPassTheCheck ==
  [][\A i \in ProcIds : \A j \in ProcIds \ {i} :
       /\ Claims(i, Key(procs[j].target))
       /\ Claims(j, Key(procs[i].target))
       /\ procs[i].pc = "act"
       /\ procs[j].pc = "probe"
       /\ fsPromises_stat(fs, procs[j].target).err = "ENOENT"
       /\ procs'[j] /= procs[j]
       => procs'[j].pc = "act" /\ procs'[i].pc = "act"]_vars

\* two createFolder requests for one new path, both past the check, neither
\* having created it
C14_Witness ==
  /\ procs[1].op = "fs.createFolder" /\ procs[2].op = "fs.createFolder"
  /\ procs[1].pc = "act" /\ procs[2].pc = "act"
  /\ procs[1].target = procs[2].target
  /\ ~ExistsAt(fs, Key(procs[1].target))

\* the first event delivered to the stream write's handlers
First(e) == stream.events /= <<>> /\ stream.events[1] = e

\* the result follows the first event: success for the finish, the write
\* error for the error, the timeout for the timer, then with the stream
\* destroyed and the 30 seconds gone
ResultOfFirstEvent ==
  stream.events /= <<>> =>
    /\ Len(stream.results) = 1
    /\ First("finish") => /\ stream.results[1].success
                          /\ stream.results[1].data = stream.relativePath
    /\ First("error") => /\ ~stream.results[1].success
                         /\ stream.results[1].message = "Error writing file"
    /\ First("timeout") => /\ ~stream.results[1].success
                           /\ stream.results[1].message = "File upload timed out"
                           /\ stream.ws = "destroyed"
                           /\ stream.clock >= TimeoutMs

\* C15: every large-file save eventually returns exactly one result: success
\* if the write stream finishes first, the write error if it errors first,
\* the timeout failure with the stream destroyed if neither comes within 30
\* seconds; an event that comes after the first outcome changes nothing.
C15_StreamSettlesOnce ==
  /\ [](Len(stream.results) <= 1 /\ ResultOfFirstEvent)
  /\ [][stream.results /= <<>> => stream'.results = stream.results]_vars
  /\ (stream.ws = "pending") ~> (Len(stream.results) = 1)

\* the write finished in time, and an error of the close came after it
C15_Witness ==
  /\ stream.events = <<"finish", "error">>
  /\ Len(stream.results) = 1
  /\ stream.results[1].success
  /\ stream.fileBuffer.length > StreamThreshold

\* the entries below the directory k in pre-order: each child in the order
\* readdir gives, a directory followed at once by what lies below it
RECURSIVE PreOrder(_, _)
RECURSIVE PreOrderOf(_, _, _)
PreOrderOf(f, k, names) ==
  IF names = <<>> THEN <<>>
  ELSE <<Key(path_join(k, Head(names)))>>
         \o (IF IsDirAt(f, Key(path_join(k, Head(names))))
             THEN PreOrder(f, Key(path_join(k, Head(names)))) ELSE <<>>)
         \o PreOrderOf(f, k, Tail(names))
PreOrder(f, k) == PreOrderOf(f, k, fsPromises_readdir(f, k).files)

\* the entries the items of a listing name, in the listing's order
ItemKeys(l) == [i \in 1..Len(l.items) |-> Key(Abs(l.items[i].path))]

\* C22: with no concurrent mutation, listDirectoryRecursively(p) of a
\* directory returns every entry below p exactly once, in pre-order: each
\* directory's entry, then at once the entries below it, then its next
\* sibling, siblings in directory read order.
C22_RecursiveListingPreOrder ==
  /\ last.op = "fs.listDirectoryRecursively"
  /\ Accepted(last.a)
  /\ IsDirAt(pre, ListTarget)
  /\ ListTarget /= Cwd
  => /\ ~last.out.threw
     /\ ItemKeys(last.out.listing) = PreOrder(pre, ListTarget)
     /\ Len(last.out.listing.items) = Cardinality(Subtree(pre, ListTarget)) - 1
     /\ \A i \in 1..Len(last.out.listing.items) :
           /\ last.out.listing.items[i].isDirectory
                 = IsDirAt(pre, ItemKeys(last.out.listing)[i])
           /\ last.out.listing.items[i].name
                 = path_basename(ItemKeys(last.out.listing)[i])

\* a directory below the root was listed: it holds a directory with an entry
\* of its own, and an entry after that directory
C22_Witness ==
  /\ last.op = "fs.listDirectoryRecursively"
  /\ ~last.out.threw
  /\ ListTarget /= Root
  /\ Len(last.out.listing.items) = MaxEntries - 1
  /\ last.out.listing.items[1].isDirectory
  /\ path_dirname(ItemKeys(last.out.listing)[2]) = ItemKeys(last.out.listing)[1]

\* C26: deleteItem, renameItem and moveItem called with a path that
\* normalizes to the root fail and leave the root and all below it as it was.
C26_RootIsNeverTheItem ==
  /\ last.op \in {"fs.deleteItem", "fs.renameItem", "fs.moveItem"}
  /\ Accepted(last.a)
  /\ Norm(last.a) = <<>>
  => ~last.out.success /\ fs = pre

\* C27: when saveFile returns a failure, no file stands at the target path
\* that did not stand there before the call.
C27_FailedSaveLeavesNoFile ==
  /\ last.op = "fs.saveFile"
  /\ ~last.out.success
  /\ Accepted(last.a)
  => (Key(SaveTarget) \in DOMAIN fs => Key(SaveTarget) \in DOMAIN pre)

\* the files a call created
NewFiles == {k \in DOMAIN fs \ DOMAIN pre : IsFileAt(fs, k)}

\* C28: a successful saveFile(dirPath, fileName, bytes), for every dirPath and
\* fileName, creates exactly one new file, an immediate child of the
\* normalized dirPath, and returns its path, dirPath/fileName, in data.path.
C28_SavedFileIsChildOfDir ==
  last.op = "fs.saveFile" /\ last.out.success
  => /\ Cardinality(NewFiles) = 1
     /\ \A k \in NewFiles :
           /\ path_dirname(k) = Key(Abs(Norm(last.a)))
           /\ Key(Abs(last.out.data)) = k

\* what path.normalize makes of the input without its leading slashes
Normalized(s) == path_normalize(StripLeadingSlashes(s))

\* C29: normalizePath returns a path for every input whose normalized form
\* has no ".." segment, a name with two dots inside it included; it rejects
\* only the inputs whose normalized form has a ".." segment.
C29_OnlyDotDotSegmentsRejected ==
  probe.done => (probe.out.threw <=> HasDotDotSegment(Normalized(probe.input)))

\* C30: normalizePath is idempotent on what it accepts: normalizing its
\* result again succeeds, gives the same path, and getAbsolutePath resolves
\* the same location from either.
C30_NormalizeIdempotent ==
  probe.done /\ ~probe.out.threw
  => /\ normalizePath(probe.out.val) = probe.out
     /\ getAbsolutePath(probe.out.val) = getAbsolutePath(probe.input)

\* an input that normalization changed: slashes stripped, a "." resolved
C30_Witness ==
  /\ probe.done
  /\ ~probe.out.threw
  /\ probe.input = <<"/", "/", ".", "/", "a", "/">>
  /\ probe.out.val = <<"a", "/">>
  /\ normalizePath(probe.out.val) = probe.out

\* the outcomes in data.results, and the files of the batch
UploadResults == last.out.results
Submitted == last.files

\* C23: for a non-empty batch uploadFiles returns in data.results one outcome
\* per submitted file, in submission order; success is true iff some file
\* succeeded; the message is the all-uploaded one iff every file succeeded,
\* the partial one iff some but not all did, the failure one iff none did.
C23_OneOutcomePerFile ==
  last.op = "uploadFiles" /\ Submitted /= <<>>
  => /\ ~last.out.threw
     /\ last.out.hasData
     /\ Len(UploadResults) = Len(Submitted)
     /\ \A i \in 1..Len(Submitted) : UploadResults[i].message.file = Submitted[i].name
     /\ last.out.success <=> SomeSucceeded(UploadResults)
     /\ last.out.message = FILES_UPLOADED <=> AllSucceeded(UploadResults)
     /\ last.out.message = "Some files were uploaded successfully"
           <=> SomeSucceeded(UploadResults) /\ ~AllSucceeded(UploadResults)
     /\ last.out.message = "Failed to upload any files" <=> ~SomeSucceeded(UploadResults)

\* a batch of which the first file was refused and the second saved
C23_Witness ==
  /\ last.op = "uploadFiles"
  /\ Len(Submitted) = MaxFiles
  /\ ~UploadResults[1].success
  /\ UploadResults[Len(Submitted)].success
  /\ last.out.success
  /\ last.out.message = "Some files were uploaded successfully"

\* the declared type is on the allow-list, itself or through "image/*"
TypeMatches(type) ==
  \/ type \in ALLOWED_FILE_TYPES
  \/ Len(type) >= 6 /\ SubSeq(type, 1, 6) = <<"i", "m", "a", "g", "e", "/">>

\* the name ends in a dot and a recognised image extension, in any case, and
\* the dot is not the first character of the name
HasImageExtension(name) ==
  \E e \in imageExtensions :
     /\ Len(name) > Len(e) + 1
     /\ name[Len(name) - Len(e)] = "."
     /\ name[Len(name) - Len(e) - 1] /= "/"
     /\ toLowerCase(SubSeq(name, Len(name) - Len(e) + 1, Len(name))) = e

\* the i-th file was refused by the type test or the size test
Refused(i) ==
  /\ ~UploadResults[i].success
  /\ UploadResults[i].message.text \in {INVALID_FILE_TYPE, FILE_TOO_LARGE}

\* C24: a file is refused without a save attempt iff its type matches no
\* allow-list entry and its extension is no image extension, or its size is
\* above 50MB (50MB itself is accepted); a refused or failed file does not
\* keep the later files from being processed.
C24_RefusedIffTypeOrSize ==
  last.op = "uploadFiles"
  => /\ Len(UploadResults) = Len(Submitted)
     /\ Len(last.out.saved) = Len(Submitted)
     /\ \A i \in 1..Len(Submitted) :
           /\ Refused(i)
                 <=> \/ ~TypeMatches(Submitted[i].type) /\ ~HasImageExtension(Submitted[i].name)
                     \/ Submitted[i].size > 50 * 1024 * 1024
           /\ Refused(i) => ~last.out.saved[i]
           /\ ~Refused(i) /\ Submitted[i].readable => last.out.saved[i]

\* a file of exactly 50MB was saved after a refused file
C24_Witness ==
  /\ last.op = "uploadFiles"
  /\ Len(Submitted) = MaxFiles
  /\ Refused(1)
  /\ Submitted[Len(Submitted)].size = MAX_FILE_SIZE
  /\ last.out.saved[Len(Submitted)]
  /\ UploadResults[Len(Submitted)].success

\* C25: under every interleaving of renameItem, moveItem and saveFile, an
\* operation that reports success has not replaced or destroyed an entry
\* that was at its destination: when two operations with one destination
\* both report success, both items exist afterwards.
C25_SuccessNeverReplaces ==
  \A i \in ProcIds :
     /\ Ended(i)
     /\ procs[i].op \in MoveOps
     /\ procs[i].out.success
     => ~ExistsAt(procs[i].found, Key(procs[i].target))

\* the names of the items of a listing, in order
NamesOf(items) == [c \in 1..Len(items) |-> items[c].name]

\* the names read whose stat succeeded, in the order read
RECURSIVE Kept(_, _)
Kept(files, children) ==
  IF files = <<>> THEN <<>>
  ELSE (IF Head(children).null THEN <<>> ELSE <<Head(files)>>)
         \o Kept(Tail(files), Tail(children))

\* the listing i has read its directory and every stat of a child has returned
Listed(i) ==
  procs[i].op = "fs.listDirectory" /\ Ended(i) /\ procs[i].files /= <<>>

\* C21: when the stat of a child fails during listDirectory, a concurrent
\* deleteItem, renameItem or moveItem having removed it after the directory
\* read, the listing still completes: the children whose stat failed are
\* left out and all others read appear, in directory read order.
C21_FailedStatsOmitted ==
  \A i \in ProcIds :
     Listed(i)
     => /\ ~procs[i].out.threw
        /\ procs[i].out.isListing
        /\ NamesOf(procs[i].out.listing.items) = Kept(procs[i].files, procs[i].children)

\* two children were read, one was removed by another request before its
\* stat, and the listing holds the other
C21_Witness ==
  \E i \in ProcIds : \E j \in ProcIds \ {i} :
     /\ Listed(i)
     /\ Len(procs[i].files) = 2
     /\ \E c \in 1..2 : procs[i].children[c].null
     /\ Len(procs[i].out.listing.items) = 1
     /\ procs[j].op \in ListRaceOps
     /\ Ended(j)
     /\ procs[j].out.success

====
